---- MODULE Spec2Model ----
(***************************************************************************)
(* Process census and event persistence of the monitor:                    *)
(*   - the monitor goroutine of StartProcessEventLogger (startup seeding,  *)
(*     the ticker/reset select loop, logEndedProcesses, logNewProcesses),  *)
(*   - ResetLoggedApps and its single-slot channel,                        *)
(*   - the write channel, EnqueueWrite and StartDatabaseWriter,            *)
(*   - the app_events table as far as the queued statements touch it,      *)
(*   - the Windows classification rules ShouldExclude / ShouldTrack.       *)
(*                                                                         *)
(* A tick is several steps: every EnqueueWrite is a channel send that      *)
(* blocks while the buffer is full, so the writer and the callers of       *)
(* ResetLoggedApps interleave with the two passes of a tick.  The OS       *)
(* process table is sampled once per tick (process.Processes()); what the  *)
(* per-process lookups of that tick return is part of the sample.          *)
(***************************************************************************)
EXTENDS Integers, Sequences, FiniteSets, Bags, TLC

(* ------------------------------ bounds -------------------------------- *)

\* process identifiers the OS hands out
NumPids == 2
\* buffer size of the write channel in the model (the program uses 100)
WriteChCap == 2
\* a pid is not seen as new by a tick while this many of its rows are open
MaxOpen == 2
\* goroutines that may sit blocked inside ResetLoggedApps at once
MaxResetCallers == 1
\* the count of ticks begun while a reset signal waits stops here
MaxWaited == 2

Pids == 1..NumPids

(* --------------------------- program constants ------------------------ *)

\* make(chan struct{}, 1)
ResetChCap == 1
\* integrity levels
IntegrityMedium == 8192
IntegritySystem == 16384
SystemRID == IntegritySystem

(* ------------------------------ strings ------------------------------- *)

\* strings.ToLower on the strings that occur in the model
ToLower(s) ==
    CASE s = "Editor.exe" -> "editor.exe"
      [] s = "Windows"    -> "windows"
      [] s = "System32"   -> "system32"
      [] s = "SysWOW64"   -> "syswow64"
      [] s = "Apps"       -> "apps"
      [] s = "C:"         -> "c:"
      [] s = "PowerShell" -> "powershell"
      [] s = "Explorer.EXE" -> "explorer.exe"
      [] s = "Paint.exe"  -> "paint.exe"
      [] s = "ProcGuard.exe" -> "procguard.exe"
      [] s = "Tools"      -> "tools"
      [] s = "Editor"     -> "editor"
      [] s = "ProcGuard"  -> "procguard"
      [] OTHER            -> s

\* a path is the sequence of its components; ToLower acts on each of them
PathToLower(path) == [i \in 1..Len(path) |-> ToLower(path[i])]

\* strings.Contains(path, "\\" + a + "\\" + b + "\\"): directory a directly
\* followed by directory b, with a component before and after
ContainsDirs(path, a, b) ==
    \E i \in 2..(Len(path) - 2) : path[i] = a /\ path[i + 1] = b

\* strings.Contains(path, file) for a file name
ContainsName(path, file) == \E i \in 1..Len(path) : path[i] = file

\* strings.HasSuffix(path, file)
HasSuffixName(path, file) == Len(path) > 0 /\ path[Len(path)] = file

\* strings.EqualFold
EqualFold(s, t) == ToLower(s) = ToLower(t)

(* --------------------------- Go map helpers --------------------------- *)

\* m[k] of a Go map with int values: the zero value when k is missing
Get(m, k) == IF k \in DOMAIN m THEN m[k] ELSE 0

\* m[k] = v
Put(m, k, v) == [x \in (DOMAIN m) \cup {k} |-> IF x = k THEN v ELSE m[x]]

\* delete(m, k)
Delete(m, k) == [x \in (DOMAIN m) \ {k} |-> m[x]]

\* make(map[...]...)
EmptyMap == <<>>

(* ------------------------- observed processes ------------------------- *)

\* What the lookups on one *process.Process return during one tick.
Proc(name, nameErr, exe, exeErr, product, il, window, parent) ==
    [name |-> name, nameErr |-> nameErr, exe |-> exe, exeErr |-> exeErr,
     product |-> product, il |-> il, window |-> window, parent |-> parent]

UserPath(file) == <<"C:", "Apps", file>>
SystemPath(file) == <<"C:", "Windows", "System32", file>>

\* a user application with a window, started from the desktop shell
EditorUser == Proc("Editor.exe", FALSE, UserPath("Editor.exe"), FALSE, "Editor", IntegrityMedium, TRUE, "explorer.exe")
\* the same application name under the system directory, with a window
EditorSystem == Proc("editor.exe", FALSE, SystemPath("editor.exe"), FALSE, "Editor", IntegrityMedium, TRUE, "explorer.exe")
\* the same application name without a visible window
EditorHidden == Proc("editor.exe", FALSE, UserPath("editor.exe"), FALSE, "Editor", IntegrityMedium, FALSE, "Editor.exe")
\* an interpreter opened from the desktop shell
PwshShell == Proc("pwsh.exe", FALSE, <<"C:", "PowerShell", "pwsh.exe">>, FALSE, "PowerShell", IntegrityMedium, FALSE, "Explorer.EXE")
\* a process caught mid-exit: its name cannot be read
NoName == Proc("", TRUE, <<>>, TRUE, "", IntegrityMedium, FALSE, "")
\* a process whose name is readable but whose executable path is not
NoExe == Proc("pwsh.exe", FALSE, <<>>, TRUE, "", IntegrityMedium, FALSE, "explorer.exe")

ProcKinds == {EditorUser, EditorSystem, EditorHidden, PwshShell, NoName, NoExe}

\* a second user application with a window
PaintUser == Proc("Paint.exe", FALSE, UserPath("Paint.exe"), FALSE, "Paint", IntegrityMedium, TRUE, "explorer.exe")

\* the monitor's own executable, with its window
SelfProc == Proc("ProcGuard.exe", FALSE, UserPath("ProcGuard.exe"), FALSE, "ProcGuard", IntegrityMedium, TRUE, "explorer.exe")
\* a console host outside the system directory
Conhost == Proc("conhost.exe", FALSE, <<"C:", "Tools", "conhost.exe">>, FALSE, "Console", IntegrityMedium, TRUE, "Editor.exe")
\* a windowed application under the 32-bit system directory
PaintSysWow == Proc("Paint.exe", FALSE, <<"C:", "Windows", "SysWOW64", "Paint.exe">>, FALSE, "Paint", IntegrityMedium, TRUE, "explorer.exe")
\* a windowed component of the operating system outside the system directory
VendorProduct == Proc("Paint.exe", FALSE, UserPath("Paint.exe"), FALSE, "Microsoft Windows Operating System", IntegrityMedium, TRUE, "explorer.exe")
\* a windowed process running at system integrity
SystemService == Proc("Paint.exe", FALSE, UserPath("Paint.exe"), FALSE, "Paint", IntegritySystem, TRUE, "explorer.exe")
\* an interpreter with a console window, started by another application
CmdChild == Proc("cmd.exe", FALSE, <<"C:", "Tools", "cmd.exe">>, FALSE, "Cmd", IntegrityMedium, TRUE, "Editor.exe")

FilterKinds ==
    {EditorUser, EditorSystem, EditorHidden, PwshShell, NoName, NoExe, PaintUser,
     SelfProc, Conhost, PaintSysWow, VendorProduct, SystemService, CmdChild}


(* --------------------------- classification --------------------------- *)

\* variant: the integrity level is not looked at
ShouldExcludeNoIntegrity(exePath, proc) ==
    LET exePathLower == PathToLower(exePath) IN
    \/ ContainsName(exePathLower, "procguard.exe")
    \/ HasSuffixName(exePathLower, "conhost.exe")
    \/ ContainsDirs(exePathLower, "windows", "system32")
    \/ ContainsDirs(exePathLower, "windows", "syswow64")
    \/ proc.product = "Microsoft Windows Operating System"

ShouldExclude(exePath, proc) ==
    LET exePathLower == PathToLower(exePath) IN
    \/ ContainsName(exePathLower, "procguard.exe")
    \/ HasSuffixName(exePathLower, "conhost.exe")
    \/ ContainsDirs(exePathLower, "windows", "system32")
    \/ ContainsDirs(exePathLower, "windows", "syswow64")
    \/ proc.product = "Microsoft Windows Operating System"
    \/ proc.il >= SystemRID

ShouldTrack(exePath, proc) ==
    LET nameLower == ToLower(proc.name) IN
    IF proc.nameErr THEN FALSE
    ELSE IF nameLower \in {"cmd.exe", "powershell.exe", "pwsh.exe"}
         THEN proc.parent # "" /\ EqualFold(proc.parent, "explorer.exe")
         ELSE proc.window

(* ------------------------------ the store ----------------------------- *)

\* The table app_events is held as the bag of its rows with end_time NULL:
\* both statements of the monitor and its seeding query select on
\* end_time IS NULL, so a row whose end_time is set is out of reach of
\* every statement for good.
Row(pid, name) == [pid |-> pid, name |-> name]

\* write requests: the two statements the monitor enqueues
InsertReq(pid, name) == [op |-> "INSERT", pid |-> pid, name |-> name]
UpdateReq(pid) == [op |-> "UPDATE", pid |-> pid, name |-> ""]

\* UPDATE app_events SET end_time = ? WHERE pid = ? AND end_time IS NULL:
\* every open row of the pid gets its end_time
ExecUpdate(b, pid) ==
    [r \in {x \in DOMAIN b : x.pid # pid} |-> b[r]]

\* INSERT INTO app_events (...) VALUES (...): a new row with NULL end_time
ExecInsert(b, pid, name) == b (+) SetToBag({Row(pid, name)})

\* db.Exec of one request
Exec(b, req) ==
    IF req.op = "INSERT" THEN ExecInsert(b, req.pid, req.name)
    ELSE ExecUpdate(b, req.pid)

\* SELECT pid, process_name FROM app_events WHERE end_time IS NULL
OpenRows(b) == DOMAIN b

\* number of rows of a pid with end_time NULL
OpenCount(b, pid) ==
    LET rs == {r \in DOMAIN b : r.pid = pid}
        RECURSIVE Sum(_)
        Sum(S) == IF S = {} THEN 0
                  ELSE LET r == CHOOSE x \in S : TRUE IN b[r] + Sum(S \ {r})
    IN  Sum(rs)

(* ------------------------------- state -------------------------------- *)

VARIABLES
    pc,               \* where the monitor goroutine is
    mu,               \* loggerState.Mutex is held
    runningProcs,     \* loggerState.runningProcs: pid -> lowercase name
    runningAppCounts, \* loggerState.runningAppCounts: lowercase name -> count
    alive,            \* pids for which process.PidExists holds during seeding
    rows,             \* result rows of the seeding query not yet scanned
    currentPids,      \* pids of the tick's process.Processes() result
    procs,            \* what the lookups of the tick return, for the pids not in the ledger
    todo,             \* processes the loop of logNewProcesses has not visited yet
    resetLoggerCh,    \* signals buffered in resetLoggerCh
    resetBlocked,     \* callers of ResetLoggedApps blocked in the send
    writeCh,          \* buffered write requests, oldest first
    store,            \* bag of the app_events rows with end_time NULL
    counted,          \* history: ledger pids whose entry incremented a count
    logged,           \* history: ledger pids with an INSERT enqueued (or a row found at seeding) and no UPDATE since
    tickWrites,       \* history: requests enqueued by the tick in progress
    procs0,           \* history: runningProcs when the tick began
    counts0,          \* history: runningAppCounts when the tick began
    resetPids,        \* history: counted ledger pids dropped by a reset no tick has followed
    lastIter,         \* history: what the last iteration of the select loop was
    openAtReset,      \* history: pids with an open row when a reset was handled that no tick has followed
    waited,           \* history: ticks begun with a reset signal waiting, since the last reset was handled
    dbOnce,           \* dbOnce has run its function
    writers,          \* goroutines running StartDatabaseWriter
    inflight,         \* requests inside db.Exec, one per busy writer
    execErr,          \* err of the db.Exec call that returned last
    globalDB,         \* globalDB is not nil
    chans,            \* channels made for writeCh
    ret,              \* what the latest InitDB / OpenDB call returned: <<db is not nil, err is not nil>>
    initFailed,       \* history: the function of dbOnce.Do ended with an error
    clientSends,      \* requests of the EnqueueWrite calls of clients that have not returned
    loggedApps        \* loggedApps of the name-flag variant of the monitor

monVars == <<pc, mu, runningProcs, runningAppCounts, alive, rows, currentPids, procs, todo>>
resetVars == <<resetLoggerCh, resetBlocked>>
queueVars == <<writeCh, store>>
histVars == <<counted, logged, tickWrites, procs0, counts0, resetPids, lastIter, openAtReset, waited>>
apiVars == <<globalDB, chans, ret, initFailed, clientSends>>
dbVars == <<dbOnce, writers, inflight, execErr, apiVars>>
vars == <<monVars, resetVars, queueVars, histVars, dbVars, loggedApps>>

\* the table a start can find: rows left open by an earlier run, at most
\* one per pid
InitStores == {SetToBag({Row(p, "Editor.exe") : p \in S}) : S \in SUBSET Pids}

Init ==
    /\ pc = "seed"
    /\ mu = FALSE
    /\ runningProcs = EmptyMap
    /\ runningAppCounts = EmptyMap
    /\ store \in InitStores
    /\ alive \in SUBSET {r.pid : r \in DOMAIN store}
    /\ rows = {}
    /\ currentPids = {}
    /\ procs = EmptyMap
    /\ todo = {}
    /\ resetLoggerCh = 0
    /\ resetBlocked = 0
    /\ writeCh = <<>>
    /\ counted = {}
    /\ logged = {}
    /\ tickWrites = <<>>
    /\ procs0 = EmptyMap
    /\ counts0 = EmptyMap
    /\ resetPids = {}
    /\ lastIter = "start"
    /\ openAtReset = {}
    /\ waited = 0
    /\ dbOnce = TRUE
    /\ writers = 1
    /\ inflight = <<>>
    /\ execErr = FALSE
    /\ globalDB = TRUE
    /\ chans = 1
    /\ ret = <<TRUE, FALSE>>
    /\ initFailed = FALSE
    /\ clientSends = <<>>
    /\ loggedApps = {}

(* ----------------------------- write queue ---------------------------- *)

\* writeCh <- WriteRequest{...} can proceed: the buffer has room
CanEnqueue == Len(writeCh) < WriteChCap

\* variant: a send that gives up when the buffer is full
EnqueueWriteDropping(req) ==
    /\ tickWrites' = Append(tickWrites, req)
    /\ writeCh' = IF CanEnqueue THEN Append(writeCh, req) ELSE writeCh

\* EnqueueWrite: the send on writeCh
EnqueueWrite(req) ==
    /\ CanEnqueue
    /\ writeCh' = Append(writeCh, req)
    /\ tickWrites' = Append(tickWrites, req)

\* StartDatabaseWriter: one iteration of for req := range writeCh, the
\* receive and db.Exec(req.Query, req.Args...); a failure is logged and the
\* request is gone
WriterStep ==
    /\ Len(inflight) < writers
    /\ writeCh # <<>>
    /\ \E ok \in BOOLEAN :
          store' = IF ok THEN Exec(store, Head(writeCh)) ELSE store
    /\ writeCh' = Tail(writeCh)
    /\ UNCHANGED <<monVars, resetVars, histVars, dbVars, loggedApps>>

\* remove the element at position i
RemoveAt(seq, i) == SubSeq(seq, 1, i - 1) \o SubSeq(seq, i + 1, Len(seq))

\* variant: the writer takes the newest request of the buffer
WriterRecvNewest ==
    /\ Len(inflight) < writers
    /\ writeCh # <<>>
    /\ inflight' = Append(inflight, writeCh[Len(writeCh)])
    /\ writeCh' = SubSeq(writeCh, 1, Len(writeCh) - 1)
    /\ UNCHANGED <<store, dbOnce, writers, execErr, apiVars>>
    /\ UNCHANGED <<monVars, resetVars, histVars, loggedApps>>

\* variant: the writer takes a request only while the state lock is free
WriterRecvUnderLock ==
    /\ mu = FALSE
    /\ Len(inflight) < writers
    /\ writeCh # <<>>
    /\ inflight' = Append(inflight, Head(writeCh))
    /\ writeCh' = Tail(writeCh)
    /\ UNCHANGED <<store, dbOnce, writers, execErr, apiVars>>
    /\ UNCHANGED <<monVars, resetVars, histVars, loggedApps>>

\* StartDatabaseWriter, the iteration in two steps.  First the receive of
\* for req := range writeCh and the call of db.Exec: the request leaves the
\* buffer and is inside the store call of this writer.
WriterRecv ==
    /\ Len(inflight) < writers
    /\ writeCh # <<>>
    /\ inflight' = Append(inflight, Head(writeCh))
    /\ writeCh' = Tail(writeCh)
    /\ UNCHANGED <<store, dbOnce, writers, execErr, apiVars>>
    /\ UNCHANGED <<monVars, resetVars, histVars, loggedApps>>

\* variant: a failed INSERT takes the ledger entry of its pid back
WriterReturnRollsBack ==
    /\ \E i \in DOMAIN inflight : \E ok \in BOOLEAN :
          /\ store' = IF ok THEN Exec(store, inflight[i]) ELSE store
          /\ execErr' = ~ok
          /\ inflight' = RemoveAt(inflight, i)
          /\ IF ~ok /\ inflight[i].op = "INSERT" /\ inflight[i].pid \in DOMAIN runningProcs
             THEN /\ runningProcs' = Delete(runningProcs, inflight[i].pid)
                  /\ counted' = counted \ {inflight[i].pid}
                  /\ logged' = logged \ {inflight[i].pid}
             ELSE UNCHANGED <<runningProcs, counted, logged>>
    /\ UNCHANGED <<writeCh, dbOnce, writers, apiVars>>
    /\ UNCHANGED <<pc, mu, runningAppCounts, alive, rows, currentPids, procs, todo>>
    /\ UNCHANGED <<resetVars, tickWrites, procs0, counts0, resetPids, lastIter, openAtReset, waited, loggedApps>>

\* variant: a request whose db.Exec failed is sent to the channel again
WriterReturnRetries ==
    /\ \E i \in DOMAIN inflight : \E ok \in BOOLEAN :
          /\ store' = IF ok THEN Exec(store, inflight[i]) ELSE store
          /\ execErr' = ~ok
          /\ inflight' = RemoveAt(inflight, i)
          /\ writeCh' = IF ~ok /\ CanEnqueue THEN Append(writeCh, inflight[i]) ELSE writeCh
    /\ UNCHANGED <<dbOnce, writers, apiVars>>
    /\ UNCHANGED <<monVars, resetVars, histVars, loggedApps>>

\* Then db.Exec returns, with the statement applied or with an error; the
\* error is logged and the loop goes back to the receive.
WriterReturn ==
    /\ \E i \in DOMAIN inflight : \E ok \in BOOLEAN :
          /\ store' = IF ok THEN Exec(store, inflight[i]) ELSE store
          /\ execErr' = ~ok
          /\ inflight' = RemoveAt(inflight, i)
    /\ UNCHANGED <<writeCh, dbOnce, writers, apiVars>>
    /\ UNCHANGED <<monVars, resetVars, histVars, loggedApps>>

\* err of InitDB: set inside the function of dbOnce.Do, so only the call
\* that runs the function can return it
InitDBErr(opened, schemaOk) == ~dbOnce /\ (~opened \/ ~schemaOk)

\* variant: the function runs on every call, not once
InitDBNoOnce(opened, schemaOk) ==
    /\ dbOnce' = TRUE
    /\ globalDB' = opened
    /\ initFailed' = (initFailed \/ ~opened \/ ~schemaOk)
    /\ ret' = IF opened /\ schemaOk THEN <<TRUE, FALSE>> ELSE <<FALSE, TRUE>>
    /\ IF opened
       THEN writeCh' = <<>> /\ writers' = writers + 1 /\ chans' = chans + 1
       ELSE UNCHANGED <<writers, writeCh, chans>>

\* InitDB: dbOnce.Do(func).  The function returns early when the database
\* cannot be opened; otherwise it makes the channel and starts the writer,
\* also when CreateSchema failed.
\* The call returns (nil, err) when its own err is set and (globalDB, nil)
\* otherwise.
InitDB(opened, schemaOk) ==
    IF dbOnce
    THEN /\ ret' = <<globalDB, FALSE>>
         /\ UNCHANGED <<dbOnce, writers, writeCh, globalDB, chans, initFailed>>
    ELSE /\ dbOnce' = TRUE
         /\ globalDB' = opened
         /\ initFailed' = (~opened \/ ~schemaOk)
         /\ ret' = IF opened /\ schemaOk THEN <<TRUE, FALSE>> ELSE <<FALSE, TRUE>>
         /\ IF opened
            THEN writeCh' = <<>> /\ writers' = writers + 1 /\ chans' = chans + 1
            ELSE UNCHANGED <<writers, writeCh, chans>>

\* App.startup: InitDB, log.Fatalf on its error (the process is over),
\* else the daemon starts the monitor
Startup ==
    /\ pc = "boot"
    /\ \E opened, schemaOk \in BOOLEAN :
          IF InitDBErr(opened, schemaOk)
          THEN /\ pc' = "exit"
               /\ dbOnce' = TRUE
               /\ writers' = 0
               /\ globalDB' = opened
               /\ initFailed' = TRUE
               /\ ret' = <<FALSE, TRUE>>
               /\ UNCHANGED <<writeCh, chans>>
          ELSE /\ pc' = "seed"
               /\ InitDB(opened, schemaOk)
    /\ UNCHANGED <<mu, runningProcs, runningAppCounts, alive, rows, currentPids, procs, todo>>
    /\ UNCHANGED <<store, inflight, execErr, clientSends, resetVars, histVars, loggedApps>>

\* OpenDB from a client of the running application: InitDB once more
OpenDB ==
    /\ pc \notin {"boot", "exit"}
    /\ \E opened, schemaOk \in BOOLEAN : InitDB(opened, schemaOk)
    /\ UNCHANGED <<store, inflight, execErr, clientSends, monVars, resetVars, histVars, loggedApps>>

(* ----------------------------- reset signal --------------------------- *)

\* ResetLoggedApps: resetLoggerCh <- struct{}{}.  With a free slot the send
\* completes; with the slot taken the caller blocks in the send.
ResetLoggedApps ==
    /\ \/ /\ resetLoggerCh < ResetChCap
          /\ resetLoggerCh' = resetLoggerCh + 1
          /\ UNCHANGED resetBlocked
       \/ /\ resetLoggerCh >= ResetChCap
          /\ resetBlocked < MaxResetCallers
          /\ resetBlocked' = resetBlocked + 1
          /\ UNCHANGED resetLoggerCh
    /\ UNCHANGED <<monVars, queueVars, histVars, dbVars, loggedApps>>

\* a blocked send completes once the slot is free
ResetSendCompletes ==
    /\ resetBlocked > 0
    /\ resetLoggerCh < ResetChCap
    /\ resetLoggerCh' = resetLoggerCh + 1
    /\ resetBlocked' = resetBlocked - 1
    /\ UNCHANGED <<monVars, queueVars, histVars, dbVars, loggedApps>>

(* --------------------------- startup seeding -------------------------- *)

\* initializeRunningProcs: db.Query(...).  On an error the function returns
\* with the ledger empty; otherwise it takes the lock and scans the rows.
SeedQuery ==
    /\ pc = "seed"
    /\ \/ /\ pc' = "select"
          /\ alive' = {}
          /\ UNCHANGED <<mu, rows>>
       \/ /\ rows' = OpenRows(store)
          /\ mu' = TRUE
          /\ pc' = "seedrows"
          /\ UNCHANGED alive
    /\ UNCHANGED <<runningProcs, runningAppCounts, currentPids, procs, todo>>
    /\ UNCHANGED <<resetVars, queueVars, histVars, dbVars, loggedApps>>

\* initializeRunningProcs: one iteration of for rows.Next()
SeedRow ==
    /\ pc = "seedrows"
    /\ \E r \in rows :
        /\ rows' = rows \ {r}
        /\ IF r.pid \in alive
           THEN LET nameLower == ToLower(r.name) IN
                /\ runningProcs' = Put(runningProcs, r.pid, nameLower)
                /\ runningAppCounts' =
                      Put(runningAppCounts, nameLower, Get(runningAppCounts, nameLower) + 1)
                /\ counted' = counted \cup {r.pid}
                /\ logged' = logged \cup {r.pid}
                /\ UNCHANGED <<writeCh, tickWrites>>
           ELSE /\ EnqueueWrite(UpdateReq(r.pid))
                /\ UNCHANGED <<runningProcs, runningAppCounts, counted, logged>>
    /\ UNCHANGED <<pc, mu, alive, currentPids, procs, todo, store>>
    /\ UNCHANGED <<resetVars, procs0, counts0, resetPids, lastIter, openAtReset, waited, dbVars, loggedApps>>

\* initializeRunningProcs returns: deferred Unlock and rows.Close
SeedDone ==
    /\ pc = "seedrows"
    /\ rows = {}
    /\ mu' = FALSE
    /\ pc' = "select"
    /\ alive' = {}
    /\ tickWrites' = <<>>
    /\ UNCHANGED <<runningProcs, runningAppCounts, rows, currentPids, procs, todo>>
    /\ UNCHANGED <<resetVars, queueVars, counted, logged, procs0, counts0, resetPids, lastIter, openAtReset, waited, dbVars, loggedApps>>

(* ------------------------------ the tick ------------------------------ *)

\* INSERT requests for pid in the write channel
PendingInserts(pid) ==
    Cardinality({i \in 1..Len(writeCh) : writeCh[i].op = "INSERT" /\ writeCh[i].pid = pid})

\* case <-ticker.C with process.Processes() succeeding: currentPids is
\* built and logEndedProcesses takes the lock.  The loop of logNewProcesses
\* visits every process of the result (todo), but it makes its lookups only
\* on those whose pid is not in the ledger, so procs holds the results of
\* the lookups for those.  (The guard on the rows bounds the table in the
\* model.)
TickOf(pids, kindsOf) ==
    /\ pc = "select"
    /\ \E S \in SUBSET pids :
        /\ \A pid \in S \ (DOMAIN runningProcs) :
              OpenCount(store, pid) + PendingInserts(pid) < MaxOpen
        /\ currentPids' = S
        /\ procs' \in {f \in [S \ (DOMAIN runningProcs) -> UNION {kindsOf[q] : q \in pids}] :
                        \A q \in DOMAIN f : f[q] \in kindsOf[q]}
        /\ todo' = S
    /\ mu' = TRUE
    /\ pc' = "ended"
    /\ tickWrites' = <<>>
    /\ procs0' = runningProcs
    /\ counts0' = runningAppCounts
    /\ lastIter' = "tick"
    /\ UNCHANGED openAtReset
    /\ waited' = IF resetLoggerCh > 0 /\ waited < MaxWaited THEN waited + 1 ELSE waited
    /\ UNCHANGED <<runningProcs, runningAppCounts, alive, rows>>
    /\ UNCHANGED <<resetVars, queueVars, counted, logged, resetPids, dbVars, loggedApps>>

TickBegin == TickOf(Pids, [pid \in Pids |-> ProcKinds])

\* variant: a failed enumeration is taken as an empty one and the two
\* passes run on it
TickEnumFailRunsDiff ==
    /\ pc = "select"
    /\ currentPids' = {}
    /\ procs' = EmptyMap
    /\ todo' = {}
    /\ mu' = TRUE
    /\ pc' = "ended"
    /\ tickWrites' = <<>>
    /\ procs0' = runningProcs
    /\ counts0' = runningAppCounts
    /\ lastIter' = "enumfail"
    /\ UNCHANGED <<openAtReset, waited>>
    /\ UNCHANGED <<runningProcs, runningAppCounts, alive, rows>>
    /\ UNCHANGED <<resetVars, queueVars, counted, logged, resetPids, dbVars, loggedApps>>

\* case <-ticker.C with process.Processes() failing: continue
TickEnumFail ==
    /\ pc = "select"
    /\ lastIter' = "enumfail"
    /\ UNCHANGED <<openAtReset, waited>>
    /\ UNCHANGED <<monVars, resetVars, queueVars, dbVars, loggedApps>>
    /\ UNCHANGED <<counted, logged, tickWrites, procs0, counts0, resetPids>>

\* variant: the mapping of a name is kept when its count reaches zero
DecrementKeepsZero(counts, nameLower) ==
    Put(counts, nameLower, Get(counts, nameLower) - 1)

\* variant: the mapping is deleted only when the count is exactly zero
DecrementDeletesAtZero(counts, nameLower) ==
    LET c == Get(counts, nameLower) - 1 IN
    IF c = 0 THEN Delete(counts, nameLower) ELSE Put(counts, nameLower, c)

\* the count of name after runningAppCounts[name]-- and the delete at <= 0
Decrement(counts, nameLower) ==
    LET c == Get(counts, nameLower) - 1 IN
    IF c <= 0 THEN Delete(counts, nameLower) ELSE Put(counts, nameLower, c)

\* variant: the ended pass sends the UPDATE but keeps the ledger entry
EndedStepKeepsEntry ==
    /\ pc = "ended"
    /\ \E pid \in (DOMAIN runningProcs) \ currentPids :
        /\ EnqueueWrite(UpdateReq(pid))
        /\ currentPids' = currentPids \cup {pid}
    /\ UNCHANGED <<pc, mu, runningProcs, runningAppCounts, alive, rows, procs, todo, store>>
    /\ UNCHANGED <<resetVars, counted, logged, procs0, counts0, resetPids, lastIter, openAtReset, waited, dbVars, loggedApps>>

\* logEndedProcesses: one iteration that finds a ledger pid missing from
\* currentPids (the range over the map visits the entries in any order)
EndedStep ==
    /\ pc = "ended"
    /\ \E pid \in (DOMAIN runningProcs) \ currentPids :
        /\ EnqueueWrite(UpdateReq(pid))
        /\ runningProcs' = Delete(runningProcs, pid)
        /\ runningAppCounts' = Decrement(runningAppCounts, runningProcs[pid])
        /\ counted' = counted \ {pid}
        /\ logged' = logged \ {pid}
    /\ UNCHANGED <<pc, mu, alive, rows, currentPids, procs, todo, store>>
    /\ UNCHANGED <<resetVars, procs0, counts0, resetPids, lastIter, openAtReset, waited, dbVars, loggedApps>>

\* variant: the ended pass is left although ended entries remain
EndedDoneEarly ==
    /\ pc = "ended"
    /\ mu' = FALSE
    /\ pc' = "newlock"
    /\ UNCHANGED <<runningProcs, runningAppCounts, alive, rows, currentPids, procs, todo>>
    /\ UNCHANGED <<resetVars, queueVars, histVars, dbVars, loggedApps>>

\* logEndedProcesses returns (deferred Unlock)
EndedDone ==
    /\ pc = "ended"
    /\ (DOMAIN runningProcs) \ currentPids = {}
    /\ mu' = FALSE
    /\ pc' = "newlock"
    /\ UNCHANGED <<runningProcs, runningAppCounts, alive, rows, currentPids, procs, todo>>
    /\ UNCHANGED <<resetVars, queueVars, histVars, dbVars, loggedApps>>

\* logNewProcesses: state.Lock()
NewBegin ==
    /\ pc = "newlock"
    /\ mu = FALSE
    /\ mu' = TRUE
    /\ pc' = "new"
    /\ UNCHANGED <<runningProcs, runningAppCounts, alive, rows, currentPids, procs, todo>>
    /\ UNCHANGED <<resetVars, queueVars, histVars, dbVars, loggedApps>>

\* what one iteration of the loop of logNewProcesses does with process p
Skip == "skip"
Known == "known"
Excluded == "excluded"
Dedup == "dedup"
Log == "log"

\* variant: the deduplication test reads >= 0 instead of > 0
ClassifyDedupAlways(ledger, counts, pid, p) ==
    IF pid \in DOMAIN ledger THEN Known
    ELSE IF p.nameErr \/ p.name = "" THEN Skip
    ELSE IF p.exeErr THEN Skip
    ELSE IF ShouldExclude(p.exe, p) THEN Excluded
    ELSE IF Get(counts, ToLower(p.name)) >= 0 THEN Dedup
    ELSE IF ~ShouldTrack(p.exe, p) THEN Skip
    ELSE Log

\* variant: no deduplication, every trackable process is logged
ClassifyNoDedup(ledger, counts, pid, p) ==
    IF pid \in DOMAIN ledger THEN Known
    ELSE IF p.nameErr \/ p.name = "" THEN Skip
    ELSE IF p.exeErr THEN Skip
    ELSE IF ShouldExclude(p.exe, p) THEN Excluded
    ELSE IF ~ShouldTrack(p.exe, p) THEN Skip
    ELSE Log

\* variant: a failed executable-path lookup does not skip the process
ClassifyExeErrIgnored(ledger, counts, pid, p) ==
    IF pid \in DOMAIN ledger THEN Known
    ELSE IF p.nameErr \/ p.name = "" THEN Skip
    ELSE IF ShouldExclude(p.exe, p) THEN Excluded
    ELSE IF Get(counts, ToLower(p.name)) > 0 THEN Dedup
    ELSE IF ~ShouldTrack(p.exe, p) THEN Skip
    ELSE Log

\* variant: a process that fails the trackability check is recorded like an
\* excluded one
ClassifyUntrackedRecorded(ledger, counts, pid, p) ==
    IF pid \in DOMAIN ledger THEN Known
    ELSE IF p.nameErr \/ p.name = "" THEN Skip
    ELSE IF p.exeErr THEN Skip
    ELSE IF ShouldExclude(p.exe, p) THEN Excluded
    ELSE IF Get(counts, ToLower(p.name)) > 0 THEN Dedup
    ELSE IF ~ShouldTrack(p.exe, p) THEN Excluded
    ELSE Log

Classify(ledger, counts, pid, p) ==
    IF pid \in DOMAIN ledger THEN Known
    ELSE IF p.nameErr \/ p.name = "" THEN Skip
    ELSE IF p.exeErr THEN Skip
    ELSE IF ShouldExclude(p.exe, p) THEN Excluded
    ELSE IF Get(counts, ToLower(p.name)) > 0 THEN Dedup
    ELSE IF ~ShouldTrack(p.exe, p) THEN Skip
    ELSE Log

\* variant: a further instance of a counted name enters the ledger but the
\* count is not incremented
NewStepDedupUncounted ==
    /\ pc = "new"
    /\ \E pid \in todo :
        LET p == procs[pid]
            nameLower == ToLower(p.name)
            what == Classify(runningProcs, runningAppCounts, pid, p)
        IN
        /\ todo' = todo \ {pid}
        /\ CASE what \in {Known, Skip} ->
                  UNCHANGED <<runningProcs, runningAppCounts, counted, logged, writeCh, tickWrites>>
             [] what \in {Excluded, Dedup} ->
                  /\ runningProcs' = Put(runningProcs, pid, nameLower)
                  /\ UNCHANGED <<runningAppCounts, counted, logged, writeCh, tickWrites>>
             [] what = Log ->
                  /\ EnqueueWrite(InsertReq(pid, p.name))
                  /\ runningProcs' = Put(runningProcs, pid, nameLower)
                  /\ runningAppCounts' =
                        Put(runningAppCounts, nameLower, Get(runningAppCounts, nameLower) + 1)
                  /\ counted' = counted \cup {pid}
                  /\ logged' = logged \cup {pid}
    /\ UNCHANGED <<pc, mu, alive, rows, currentPids, procs, store>>
    /\ UNCHANGED <<resetVars, procs0, counts0, resetPids, lastIter, openAtReset, waited, dbVars, loggedApps>>

\* logNewProcesses: one iteration of for _, p := range procs
NewStep ==
    /\ pc = "new"
    /\ \E pid \in todo :
        LET p == procs[pid]
            nameLower == ToLower(p.name)
            what == Classify(runningProcs, runningAppCounts, pid, p)
        IN
        /\ todo' = todo \ {pid}
        /\ CASE what \in {Known, Skip} ->
                  UNCHANGED <<runningProcs, runningAppCounts, counted, logged, writeCh, tickWrites>>
             [] what = Excluded ->
                  /\ runningProcs' = Put(runningProcs, pid, nameLower)
                  /\ UNCHANGED <<runningAppCounts, counted, logged, writeCh, tickWrites>>
             [] what = Dedup ->
                  /\ runningProcs' = Put(runningProcs, pid, nameLower)
                  /\ runningAppCounts' =
                        Put(runningAppCounts, nameLower, Get(runningAppCounts, nameLower) + 1)
                  /\ counted' = counted \cup {pid}
                  /\ UNCHANGED logged
                  /\ UNCHANGED <<writeCh, tickWrites>>
             [] what = Log ->
                  /\ EnqueueWrite(InsertReq(pid, p.name))
                  /\ runningProcs' = Put(runningProcs, pid, nameLower)
                  /\ runningAppCounts' =
                        Put(runningAppCounts, nameLower, Get(runningAppCounts, nameLower) + 1)
                  /\ counted' = counted \cup {pid}
                  /\ logged' = logged \cup {pid}
    /\ UNCHANGED <<pc, mu, alive, rows, currentPids, procs, store>>
    /\ UNCHANGED <<resetVars, procs0, counts0, resetPids, lastIter, openAtReset, waited, dbVars, loggedApps>>

\* logNewProcesses returns (deferred Unlock); back to the select
NewDone ==
    /\ pc = "new"
    /\ todo = {}
    /\ mu' = FALSE
    /\ pc' = "select"
    /\ currentPids' = {}
    /\ procs' = EmptyMap
    /\ tickWrites' = <<>>
    /\ procs0' = EmptyMap
    /\ counts0' = EmptyMap
    /\ resetPids' = {}
    /\ openAtReset' = {}
    /\ UNCHANGED waited
    /\ UNCHANGED <<runningProcs, runningAppCounts, alive, rows, todo>>
    /\ UNCHANGED <<resetVars, queueVars, counted, logged, lastIter, dbVars, loggedApps>>

\* variant: a reset signal drops one ledger entry and its count
ResetHandleDropsOne ==
    /\ pc = "select"
    /\ resetLoggerCh > 0
    /\ resetLoggerCh' = resetLoggerCh - 1
    /\ IF runningProcs = EmptyMap
       THEN UNCHANGED <<runningProcs, runningAppCounts, counted, logged>>
       ELSE \E pid \in DOMAIN runningProcs :
               /\ runningProcs' = Delete(runningProcs, pid)
               /\ runningAppCounts' = Delete(runningAppCounts, runningProcs[pid])
               /\ counted' = counted \ {pid}
               /\ logged' = logged \ {pid}
    /\ resetPids' = resetPids
    /\ lastIter' = IF lastIter \in {"reset", "reset2"} THEN "reset2" ELSE "reset"
    /\ openAtReset' = {pid \in Pids : OpenCount(store, pid) > 0}
    /\ waited' = 0
    /\ UNCHANGED <<pc, mu, alive, rows, currentPids, procs, todo, resetBlocked>>
    /\ UNCHANGED <<queueVars, tickWrites, procs0, counts0, dbVars, loggedApps>>

\* variant: the reset replaces the ledger but keeps the instance counts
ResetHandleKeepsCounts ==
    /\ pc = "select"
    /\ resetLoggerCh > 0
    /\ resetLoggerCh' = resetLoggerCh - 1
    /\ runningProcs' = EmptyMap
    /\ counted' = {}
    /\ logged' = {}
    /\ resetPids' = IF counted # {} THEN counted ELSE resetPids
    /\ UNCHANGED <<pc, mu, alive, rows, currentPids, procs, todo, resetBlocked>>
    /\ lastIter' = IF lastIter \in {"reset", "reset2"} THEN "reset2" ELSE "reset"
    /\ openAtReset' = {pid \in Pids : OpenCount(store, pid) > 0}
    /\ waited' = 0
    /\ UNCHANGED <<runningAppCounts, queueVars, tickWrites, procs0, counts0, dbVars, loggedApps>>

\* variant: the reset also throws away the requests waiting in writeCh
ResetHandleFlushesQueue ==
    /\ pc = "select"
    /\ resetLoggerCh > 0
    /\ resetLoggerCh' = resetLoggerCh - 1
    /\ runningProcs' = EmptyMap
    /\ runningAppCounts' = EmptyMap
    /\ counted' = {}
    /\ logged' = {}
    /\ resetPids' = IF counted # {} THEN counted ELSE resetPids
    /\ writeCh' = <<>>
    /\ lastIter' = IF lastIter \in {"reset", "reset2"} THEN "reset2" ELSE "reset"
    /\ openAtReset' = {pid \in Pids : OpenCount(store, pid) > 0}
    /\ waited' = 0
    /\ UNCHANGED <<pc, mu, alive, rows, currentPids, procs, todo, resetBlocked>>
    /\ UNCHANGED <<store, tickWrites, procs0, counts0, dbVars, loggedApps>>

\* variant: the reset is handled whenever the state lock is free, also
\* between the two passes of a tick
ResetHandleAnytime ==
    /\ pc \in {"select", "newlock"}
    /\ mu = FALSE
    /\ resetLoggerCh > 0
    /\ resetLoggerCh' = resetLoggerCh - 1
    /\ runningProcs' = EmptyMap
    /\ runningAppCounts' = EmptyMap
    /\ counted' = {}
    /\ logged' = {}
    /\ resetPids' = IF counted # {} THEN counted ELSE resetPids
    /\ lastIter' = IF lastIter \in {"reset", "reset2"} THEN "reset2" ELSE "reset"
    /\ openAtReset' = {pid \in Pids : OpenCount(store, pid) > 0}
    /\ waited' = 0
    /\ UNCHANGED <<pc, mu, alive, rows, currentPids, procs, todo, resetBlocked>>
    /\ UNCHANGED <<queueVars, tickWrites, procs0, counts0, dbVars, loggedApps>>

\* case <-resetLoggerCh: both maps are replaced under the lock
ResetHandle ==
    /\ pc = "select"
    /\ resetLoggerCh > 0
    /\ resetLoggerCh' = resetLoggerCh - 1
    /\ runningProcs' = EmptyMap
    /\ runningAppCounts' = EmptyMap
    /\ counted' = {}
    /\ logged' = {}
    /\ resetPids' = IF counted # {} THEN counted ELSE resetPids
    /\ UNCHANGED <<pc, mu, alive, rows, currentPids, procs, todo, resetBlocked>>
    /\ lastIter' = IF lastIter \in {"reset", "reset2"} THEN "reset2" ELSE "reset"
    /\ openAtReset' = {pid \in Pids : OpenCount(store, pid) > 0}
    /\ waited' = 0
    /\ UNCHANGED <<queueVars, tickWrites, procs0, counts0, dbVars, loggedApps>>

Next ==
    \/ SeedQuery \/ SeedRow \/ SeedDone
    \/ TickBegin \/ TickEnumFail
    \/ EndedStep \/ EndedDone
    \/ NewBegin \/ NewStep \/ NewDone
    \/ ResetHandle
    \/ ResetLoggedApps \/ ResetSendCompletes
    \/ WriterStep

Spec == Init /\ [][Next]_vars

(* A host that runs up to three user applications, two of them possibly    *)
(* instances of one application, started on an empty table: the setting    *)
(* of the reset scenario.                                                  *)

ScenarioPids == {1, 2, 3}
ScenarioKinds ==
    [pid \in ScenarioPids |->
        CASE pid = 1 -> {EditorUser}
          [] pid = 2 -> {EditorUser, PaintUser}
          [] OTHER  -> {PwshShell}]

InitD == Init /\ store = EmptyBag

TickBeginD == TickOf(ScenarioPids, ScenarioKinds)

NextD ==
    \/ SeedQuery \/ SeedDone
    \/ TickBeginD \/ TickEnumFail
    \/ EndedStep \/ EndedDone
    \/ NewBegin \/ NewStep \/ NewDone
    \/ ResetHandle
    \/ ResetLoggedApps \/ ResetSendCompletes
    \/ WriterStep

SpecD == InitD /\ [][NextD]_vars

(* A host on which every rule of the classification meets a process.      *)

TickBeginF == TickOf(Pids, [pid \in Pids |-> FilterKinds])

NextF ==
    \/ SeedQuery \/ SeedDone
    \/ TickBeginF
    \/ EndedStep \/ EndedDone
    \/ NewBegin \/ NewStep \/ NewDone
    \/ WriterStep

SpecF == InitD /\ [][NextF]_vars

(* The application from its start: InitDB, then the monitor, with the     *)
(* receive and the store call of the writer as separate steps.             *)

InitW ==
    /\ pc = "boot"
    /\ mu = FALSE
    /\ runningProcs = EmptyMap
    /\ runningAppCounts = EmptyMap
    /\ store \in InitStores
    /\ alive \in SUBSET {r.pid : r \in DOMAIN store}
    /\ rows = {}
    /\ currentPids = {}
    /\ procs = EmptyMap
    /\ todo = {}
    /\ resetLoggerCh = 0
    /\ resetBlocked = 0
    /\ writeCh = <<>>
    /\ counted = {}
    /\ logged = {}
    /\ tickWrites = <<>>
    /\ procs0 = EmptyMap
    /\ counts0 = EmptyMap
    /\ resetPids = {}
    /\ lastIter = "start"
    /\ openAtReset = {}
    /\ waited = 0
    /\ dbOnce = FALSE
    /\ writers = 0
    /\ inflight = <<>>
    /\ execErr = FALSE
    /\ globalDB = FALSE
    /\ chans = 0
    /\ ret = <<>>
    /\ initFailed = FALSE
    /\ clientSends = <<>>
    /\ loggedApps = {}

\* the processes of this setting: instances of one application, in the
\* user's directory or in the system directory
KindsW == [pid \in Pids |-> {EditorUser, EditorSystem}]

TickBeginW == TickOf(Pids, KindsW)

NextW ==
    \/ Startup \/ OpenDB
    \/ SeedQuery \/ SeedRow \/ SeedDone
    \/ TickBeginW \/ TickEnumFail
    \/ EndedStep \/ EndedDone
    \/ NewBegin \/ NewStep \/ NewDone
    \/ WriterRecv \/ WriterReturn

SpecW == InitW /\ [][NextW]_vars

\* the writer goroutine is scheduled again and again, and every db.Exec
\* call returns
SpecWFair == SpecW /\ WF_vars(WriterRecv) /\ WF_vars(WriterReturn)

\* a step of the monitor goroutine
MonitorStep ==
    \/ SeedQuery \/ SeedRow \/ SeedDone
    \/ TickBeginW \/ TickEnumFail
    \/ EndedStep \/ EndedDone
    \/ NewBegin \/ NewStep \/ NewDone

\* both goroutines keep being scheduled, but a db.Exec call need not return
SpecStall == SpecW /\ WF_vars(MonitorStep) /\ WF_vars(WriterRecv)

(* The data package under its callers alone: goroutines that call InitDB   *)
(* or OpenDB and then EnqueueWrite; no monitor runs, and a failed call     *)
(* does not end the process.                                               *)

\* client goroutines that can be inside EnqueueWrite at once
MaxClients == 1

\* the requests clients send
ClientReqs == {InsertReq(1, "Editor.exe")} \cup {UpdateReq(pid) : pid \in Pids}

InitDB0 ==
    /\ pc = "client"
    /\ mu = FALSE
    /\ runningProcs = EmptyMap
    /\ runningAppCounts = EmptyMap
    /\ store \in InitStores
    /\ alive = {}
    /\ rows = {}
    /\ currentPids = {}
    /\ procs = EmptyMap
    /\ todo = {}
    /\ resetLoggerCh = 0
    /\ resetBlocked = 0
    /\ writeCh = <<>>
    /\ counted = {}
    /\ logged = {}
    /\ tickWrites = <<>>
    /\ procs0 = EmptyMap
    /\ counts0 = EmptyMap
    /\ resetPids = {}
    /\ lastIter = "start"
    /\ openAtReset = {}
    /\ waited = 0
    /\ dbOnce = FALSE
    /\ writers = 0
    /\ inflight = <<>>
    /\ execErr = FALSE
    /\ globalDB = FALSE
    /\ chans = 0
    /\ ret = <<>>
    /\ initFailed = FALSE
    /\ clientSends = <<>>
    /\ loggedApps = {}

\* a client whose InitDB / OpenDB call has returned calls EnqueueWrite: the
\* goroutine is at the send writeCh <- WriteRequest{...}
ClientEnqueue ==
    /\ ret # <<>>
    /\ Len(clientSends) < MaxClients
    /\ \E req \in ClientReqs :
          /\ req.op = "INSERT" =>
                OpenCount(store, req.pid) + PendingInserts(req.pid) < MaxOpen
          /\ clientSends' = Append(clientSends, req)
    /\ UNCHANGED <<monVars, resetVars, queueVars, histVars, loggedApps>>
    /\ UNCHANGED <<dbOnce, writers, inflight, execErr, globalDB, chans, ret, initFailed>>

\* the send of a client completes and EnqueueWrite returns: the channel is
\* not nil (a send on a nil channel blocks forever) and its buffer has room
ClientSend ==
    /\ clientSends # <<>>
    /\ chans > 0
    /\ CanEnqueue
    /\ writeCh' = Append(writeCh, Head(clientSends))
    /\ clientSends' = Tail(clientSends)
    /\ UNCHANGED <<monVars, resetVars, store, histVars, loggedApps>>
    /\ UNCHANGED <<dbOnce, writers, inflight, execErr, globalDB, chans, ret, initFailed>>

NextDB == OpenDB \/ ClientEnqueue \/ ClientSend \/ WriterRecv \/ WriterReturn

SpecDB == InitDB0 /\ [][NextDB]_vars

\* the writer goroutine and the clients are scheduled again and again, and
\* every db.Exec call returns
SpecDBFair ==
    SpecDB /\ WF_vars(ClientSend) /\ WF_vars(WriterRecv) /\ WF_vars(WriterReturn)

(* The monitor built for Linux: logNewProcesses with the filter of        *)
(* rules_linux.go.                                                         *)

\* strings.Contains(exePathLower, "procguard"): a component of the path has
\* it as a substring
ContainsProcguard(path) ==
    \E i \in 1..Len(path) : path[i] \in {"procguard", "procguard.exe"}

\* ShouldExclude of rules_linux.go
ShouldExcludeLinux(exePath, proc) ==
    LET exePathLower == PathToLower(exePath) IN
    ContainsProcguard(exePathLower)

\* variant: only processes with a visible window are tracked
ShouldTrackLinuxWindowed(exePath, proc) == proc.window

\* ShouldTrack of rules_linux.go
ShouldTrackLinux(exePath, proc) == TRUE

\* logNewProcesses, the decision of one iteration with this filter
ClassifyLinux(ledger, counts, pid, p) ==
    IF pid \in DOMAIN ledger THEN Known
    ELSE IF p.nameErr \/ p.name = "" THEN Skip
    ELSE IF p.exeErr THEN Skip
    ELSE IF ShouldExcludeLinux(p.exe, p) THEN Excluded
    ELSE IF Get(counts, ToLower(p.name)) > 0 THEN Dedup
    ELSE IF ~ShouldTrackLinux(p.exe, p) THEN Skip
    ELSE Log

\* logNewProcesses: one iteration of the loop, on Linux
NewStepLinux ==
    /\ pc = "new"
    /\ \E pid \in todo :
        LET p == procs[pid]
            nameLower == ToLower(p.name)
            what == ClassifyLinux(runningProcs, runningAppCounts, pid, p)
        IN
        /\ todo' = todo \ {pid}
        /\ CASE what \in {Known, Skip} ->
                  UNCHANGED <<runningProcs, runningAppCounts, counted, logged, writeCh, tickWrites>>
             [] what = Excluded ->
                  /\ runningProcs' = Put(runningProcs, pid, nameLower)
                  /\ UNCHANGED <<runningAppCounts, counted, logged, writeCh, tickWrites>>
             [] what = Dedup ->
                  /\ runningProcs' = Put(runningProcs, pid, nameLower)
                  /\ runningAppCounts' =
                        Put(runningAppCounts, nameLower, Get(runningAppCounts, nameLower) + 1)
                  /\ counted' = counted \cup {pid}
                  /\ UNCHANGED logged
                  /\ UNCHANGED <<writeCh, tickWrites>>
             [] what = Log ->
                  /\ EnqueueWrite(InsertReq(pid, p.name))
                  /\ runningProcs' = Put(runningProcs, pid, nameLower)
                  /\ runningAppCounts' =
                        Put(runningAppCounts, nameLower, Get(runningAppCounts, nameLower) + 1)
                  /\ counted' = counted \cup {pid}
                  /\ logged' = logged \cup {pid}
    /\ UNCHANGED <<pc, mu, alive, rows, currentPids, procs, store>>
    /\ UNCHANGED <<resetVars, procs0, counts0, resetPids, lastIter, openAtReset, waited, dbVars, loggedApps>>

\* an application with a window
EditorLinux == Proc("Editor", FALSE, <<"usr", "bin", "Editor">>, FALSE, "", IntegrityMedium, TRUE, "bash")
\* a process of the same lowercase name without a window
EditorDaemon == Proc("editor", FALSE, <<"usr", "bin", "editor">>, FALSE, "", IntegrityMedium, FALSE, "systemd")
\* the monitor's own executable
SelfLinux == Proc("procguard", FALSE, <<"opt", "ProcGuard", "procguard">>, FALSE, "", IntegrityMedium, TRUE, "bash")
\* a service without a window
CronLinux == Proc("cron", FALSE, <<"usr", "sbin", "cron">>, FALSE, "", IntegrityMedium, FALSE, "systemd")

LinuxKinds == {EditorLinux, EditorDaemon, SelfLinux, CronLinux, NoName, NoExe}

TickBeginLinux == TickOf(Pids, [pid \in Pids |-> LinuxKinds])

NextLinux ==
    \/ SeedQuery \/ SeedDone
    \/ TickBeginLinux \/ TickEnumFail
    \/ EndedStep \/ EndedDone
    \/ NewBegin \/ NewStepLinux \/ NewDone
    \/ WriterStep

SpecLinux == InitD /\ [][NextLinux]_vars

(* The monitor, the writer and the callers of ResetLoggedApps, started    *)
(* on a table with more open rows than the write channel buffers.          *)

\* pids of the open rows the start finds: one more than the buffer holds
StalePids == 1..(WriteChCap + 1)

\* the pids that can run in this setting; the other rows are stale
LivePids == {1}

InitLive ==
    /\ pc = "seed"
    /\ mu = FALSE
    /\ runningProcs = EmptyMap
    /\ runningAppCounts = EmptyMap
    /\ store = SetToBag({Row(p, "Editor.exe") : p \in StalePids})
    /\ alive \in SUBSET LivePids
    /\ rows = {}
    /\ currentPids = {}
    /\ procs = EmptyMap
    /\ todo = {}
    /\ resetLoggerCh = 0
    /\ resetBlocked = 0
    /\ writeCh = <<>>
    /\ counted = {}
    /\ logged = {}
    /\ tickWrites = <<>>
    /\ procs0 = EmptyMap
    /\ counts0 = EmptyMap
    /\ resetPids = {}
    /\ lastIter = "start"
    /\ openAtReset = {}
    /\ waited = 0
    /\ dbOnce = TRUE
    /\ writers = 1
    /\ inflight = <<>>
    /\ execErr = FALSE
    /\ globalDB = TRUE
    /\ chans = 1
    /\ ret = <<TRUE, FALSE>>
    /\ initFailed = FALSE
    /\ clientSends = <<>>
    /\ loggedApps = {}

\* the processes of this setting: instances of one application
KindsLive == [pid \in LivePids |-> {EditorUser}]

TickBeginLive == TickOf(LivePids, KindsLive)

\* a step of the monitor goroutine
MonitorStepLive ==
    \/ SeedQuery \/ SeedRow \/ SeedDone
    \/ TickBeginLive \/ TickEnumFail
    \/ EndedStep \/ EndedDone
    \/ NewBegin \/ NewStep \/ NewDone
    \/ ResetHandle

NextLive ==
    \/ MonitorStepLive
    \/ ResetLoggedApps \/ ResetSendCompletes
    \/ WriterRecv \/ WriterReturn

\* the monitor and the writer are scheduled again and again, the ticker
\* keeps firing, and every db.Exec call returns
SpecLive ==
    /\ InitLive /\ [][NextLive]_vars
    /\ WF_vars(MonitorStepLive) /\ WF_vars(WriterRecv) /\ WF_vars(WriterReturn)

(* The monitor in its name-flag form: runningProcs is a set of pids held   *)
(* by the goroutine, and loggedApps flags the lowercase names that have    *)
(* been logged.  ResetLoggedApps, the failing enumeration and the writer   *)
(* are the same code.                                                      *)

\* initializeRunningProcs: db.Query(...)
SeedQueryL ==
    /\ pc = "seed"
    /\ \/ /\ pc' = "select"
          /\ alive' = {}
          /\ UNCHANGED rows
       \/ /\ rows' = OpenRows(store)
          /\ pc' = "seedrows"
          /\ UNCHANGED alive
    /\ UNCHANGED <<mu, runningProcs, runningAppCounts, currentPids, procs, todo>>
    /\ UNCHANGED <<resetVars, queueVars, histVars, dbVars, loggedApps>>

\* initializeRunningProcs: one iteration of for rows.Next()
SeedRowL ==
    /\ pc = "seedrows"
    /\ \E r \in rows :
        /\ rows' = rows \ {r}
        /\ IF r.pid \in alive
           THEN /\ runningProcs' = Put(runningProcs, r.pid, TRUE)
                /\ UNCHANGED <<writeCh, tickWrites>>
           ELSE /\ EnqueueWrite(UpdateReq(r.pid))
                /\ UNCHANGED runningProcs
    /\ UNCHANGED <<pc, mu, runningAppCounts, alive, currentPids, procs, todo, store>>
    /\ UNCHANGED <<resetVars, counted, logged, procs0, counts0, resetPids, lastIter, openAtReset, waited, dbVars, loggedApps>>

\* initializeRunningProcs returns
SeedDoneL ==
    /\ pc = "seedrows"
    /\ rows = {}
    /\ pc' = "select"
    /\ alive' = {}
    /\ tickWrites' = <<>>
    /\ UNCHANGED <<mu, runningProcs, runningAppCounts, rows, currentPids, procs, todo>>
    /\ UNCHANGED <<resetVars, queueVars, counted, logged, procs0, counts0, resetPids, lastIter, openAtReset, waited, dbVars, loggedApps>>

\* case <-ticker.C with process.Processes() succeeding: currentProcs is
\* built and logEndedProcesses begins
TickBeginL ==
    /\ pc = "select"
    /\ \E S \in SUBSET Pids :
        /\ \A pid \in S \ (DOMAIN runningProcs) :
              OpenCount(store, pid) + PendingInserts(pid) < MaxOpen
        /\ currentPids' = S
        /\ procs' \in [S \ (DOMAIN runningProcs) -> ProcKinds]
        /\ todo' = S
    /\ pc' = "ended"
    /\ tickWrites' = <<>>
    /\ procs0' = runningProcs
    /\ counts0' = runningAppCounts
    /\ lastIter' = "tick"
    /\ UNCHANGED openAtReset
    /\ waited' = IF resetLoggerCh > 0 /\ waited < MaxWaited THEN waited + 1 ELSE waited
    /\ UNCHANGED <<mu, runningProcs, runningAppCounts, alive, rows>>
    /\ UNCHANGED <<resetVars, queueVars, counted, logged, resetPids, dbVars, loggedApps>>

\* logEndedProcesses: one iteration that finds a pid missing
EndedStepL ==
    /\ pc = "ended"
    /\ \E pid \in (DOMAIN runningProcs) \ currentPids :
        /\ EnqueueWrite(UpdateReq(pid))
        /\ runningProcs' = Delete(runningProcs, pid)
    /\ UNCHANGED <<pc, mu, runningAppCounts, alive, rows, currentPids, procs, todo, store>>
    /\ UNCHANGED <<resetVars, counted, logged, procs0, counts0, resetPids, lastIter, openAtReset, waited, dbVars, loggedApps>>

\* logEndedProcesses returns and logNewProcesses begins
EndedDoneL ==
    /\ pc = "ended"
    /\ (DOMAIN runningProcs) \ currentPids = {}
    /\ pc' = "new"
    /\ UNCHANGED <<mu, runningProcs, runningAppCounts, alive, rows, currentPids, procs, todo>>
    /\ UNCHANGED <<resetVars, queueVars, histVars, dbVars, loggedApps>>

\* shouldLogProcess, its result
ShouldLogProcess(apps, p) ==
    IF p.nameErr \/ p.name = "" THEN FALSE
    ELSE IF ToLower(p.name) \in apps THEN FALSE
    ELSE IF p.exeErr THEN FALSE
    ELSE IF ShouldExclude(p.exe, p) THEN FALSE
    ELSE IF ~ShouldTrack(p.exe, p) THEN FALSE
    ELSE TRUE

\* logNewProcesses: one iteration of for _, p := range procs
NewStepL ==
    /\ pc = "new"
    /\ \E pid \in todo :
        /\ todo' = todo \ {pid}
        /\ IF pid \notin DOMAIN runningProcs /\ ShouldLogProcess(loggedApps, procs[pid])
           THEN /\ loggedApps' = loggedApps \cup {ToLower(procs[pid].name)}
                /\ EnqueueWrite(InsertReq(pid, procs[pid].name))
                /\ runningProcs' = Put(runningProcs, pid, TRUE)
           ELSE UNCHANGED <<loggedApps, writeCh, tickWrites, runningProcs>>
    /\ UNCHANGED <<pc, mu, runningAppCounts, alive, rows, currentPids, procs, store>>
    /\ UNCHANGED <<resetVars, counted, logged, procs0, counts0, resetPids, lastIter, openAtReset, waited, dbVars>>

\* logNewProcesses returns; back to the select
NewDoneL ==
    /\ pc = "new"
    /\ todo = {}
    /\ pc' = "select"
    /\ currentPids' = {}
    /\ procs' = EmptyMap
    /\ tickWrites' = <<>>
    /\ procs0' = EmptyMap
    /\ counts0' = EmptyMap
    /\ openAtReset' = {}
    /\ UNCHANGED waited
    /\ UNCHANGED <<mu, runningProcs, runningAppCounts, alive, rows, todo>>
    /\ UNCHANGED <<resetVars, queueVars, counted, logged, resetPids, lastIter, dbVars, loggedApps>>

\* case <-resetLoggerCh: loggedApps and runningProcs are replaced
ResetHandleL ==
    /\ pc = "select"
    /\ resetLoggerCh > 0
    /\ resetLoggerCh' = resetLoggerCh - 1
    /\ loggedApps' = {}
    /\ runningProcs' = EmptyMap
    /\ lastIter' = IF lastIter \in {"reset", "reset2"} THEN "reset2" ELSE "reset"
    /\ openAtReset' = {pid \in Pids : OpenCount(store, pid) > 0}
    /\ waited' = 0
    /\ UNCHANGED <<pc, mu, runningAppCounts, alive, rows, currentPids, procs, todo, resetBlocked>>
    /\ UNCHANGED <<queueVars, counted, logged, tickWrites, procs0, counts0, resetPids, dbVars>>

NextL ==
    \/ SeedQueryL \/ SeedRowL \/ SeedDoneL
    \/ TickBeginL \/ TickEnumFail
    \/ EndedStepL \/ EndedDoneL
    \/ NewStepL \/ NewDoneL
    \/ ResetHandleL
    \/ ResetLoggedApps \/ ResetSendCompletes
    \/ WriterStep

SpecL == Init /\ [][NextL]_vars

TypeOK ==
    /\ pc \in {"boot", "exit", "client", "seed", "seedrows", "select", "ended", "newlock", "new"}
    /\ mu \in BOOLEAN
    /\ DOMAIN runningProcs \subseteq Pids
    /\ resetLoggerCh \in 0..ResetChCap
    /\ Len(writeCh) <= WriteChCap

(* ===================== properties: shared notions ===================== *)

\* lowercase application names that can occur
LowerNames == {"editor.exe", "pwsh.exe", "paint.exe"}

\* ledger entries carrying a name
LedgerCount(ledger, nameLower) ==
    Cardinality({pid \in DOMAIN ledger : ledger[pid] = nameLower})

\* requests with the given statement and pid in a sequence of requests
Writes(seq, op, pid) ==
    Cardinality({i \in 1..Len(seq) : seq[i].op = op /\ seq[i].pid = pid})

\* both passes of the tick are through; the monitor is about to return to
\* the select
TickOver == pc = "new" /\ todo = {}

\* the name or the executable path of the process cannot be read
LookupFails(p) == p.nameErr \/ p.name = "" \/ p.exeErr

\* readable, matched by no exclusion rule, and trackable
Qualifies(p) == ~LookupFails(p) /\ ~ShouldExclude(p.exe, p) /\ ShouldTrack(p.exe, p)

\* readable and matched by an exclusion rule
IsExcluded(p) == ~LookupFails(p) /\ ShouldExclude(p.exe, p)

\* the step enqueues request req
Enqueues(req) == tickWrites' = Append(tickWrites, req)

\* every request the monitor can enqueue for a pid
RequestsFor(pid) ==
    {UpdateReq(pid)} \cup {InsertReq(pid, k.name) : k \in ProcKinds \cup {PaintUser}}

(* ------------------------------- C1 ----------------------------------- *)

\* C1: whenever the monitor is back at its select (after seeding, after a
\* tick, after a reset), for every lowercase application name the number of
\* ledger entries carrying the name equals the name's instance count, a
\* missing mapping counting as 0.
C1_LedgerMatchesCounts ==
    pc = "select" =>
        \A n \in LowerNames :
            LedgerCount(runningProcs, n) = Get(runningAppCounts, n)

(* ------------------------------- C2 ----------------------------------- *)

\* C2: for every pid at most one app_events row has a NULL end_time, in
\* every reachable state.
C2_AtMostOneOpenRow == \A pid \in Pids : OpenCount(store, pid) <= 1

(* ------------------------------- C3 ----------------------------------- *)

\* C3: no INSERT is enqueued for a process of a name while a counted
\* instance of that name is in the ledger.
C3_NoInsertWhileCounted ==
    [][\A pid \in Pids : \A k \in ProcKinds :
          Enqueues(InsertReq(pid, k.name)) =>
              ~\E q \in counted : runningProcs[q] = ToLower(k.name)]_vars

(* ------------------------------- C4 ----------------------------------- *)

\* the processes of the tick that are readable, not excluded and carry the
\* lowercase name
NewOfName(nameLower) ==
    {pid \in DOMAIN procs :
        /\ ~LookupFails(procs[pid])
        /\ ~ShouldExclude(procs[pid].exe, procs[pid])
        /\ ToLower(procs[pid].name) = nameLower}

\* first tick that sees the process: exactly one INSERT for it
FirstSeen ==
    \A pid \in DOMAIN procs :
        LET n == ToLower(procs[pid].name) IN
        (/\ Qualifies(procs[pid])
         /\ Get(counts0, n) = 0
         /\ NewOfName(n) = {pid})
        => /\ Writes(tickWrites, "INSERT", pid) = 1
           /\ Writes(tickWrites, "UPDATE", pid) = 0
           /\ InsertReq(pid, procs[pid].name) \in {tickWrites[i] : i \in 1..Len(tickWrites)}

\* a later tick with the pid still present: no write for it
StillPresent ==
    \A pid \in (DOMAIN procs0) \cap currentPids :
        /\ Writes(tickWrites, "INSERT", pid) = 0
        /\ Writes(tickWrites, "UPDATE", pid) = 0

\* the first tick with the pid absent: exactly one UPDATE for it
Gone ==
    \A pid \in (DOMAIN procs0) \ currentPids :
        /\ Writes(tickWrites, "UPDATE", pid) = 1
        /\ Writes(tickWrites, "INSERT", pid) = 0

\* C4 (scenario A): at the end of a tick, a qualifying process that is the
\* only new one of its name, with the name uncounted when the tick began,
\* has exactly one INSERT and nothing else enqueued; a pid the ledger held
\* when the tick began has no write enqueued if it is still present, and
\* exactly one UPDATE and no INSERT if it is absent.
C4_ScenarioA == TickOver => FirstSeen /\ StillPresent /\ Gone

\* a tick on which a process logged by an earlier tick is gone, after a tick
\* that logged a single qualifying process
C4_Witness ==
    /\ TickOver
    /\ \E pid \in (DOMAIN procs0) \ currentPids :
          /\ pid \in Pids
          /\ tickWrites = <<UpdateReq(pid)>>
          /\ OpenCount(store, pid) = 1
          /\ procs0[pid] = "editor.exe"
          /\ Get(counts0, "editor.exe") = 1

(* ------------------------------- C5 ----------------------------------- *)

\* the INSERTs of the tick for the pids of a set
InsertsAmong(S) ==
    Cardinality({i \in 1..Len(tickWrites) :
                    tickWrites[i].op = "INSERT" /\ tickWrites[i].pid \in S})

\* two qualifying processes of one name appear in the tick, no other new
\* process carries the name, and the name was uncounted when the tick began
TwoNewOfName(n) ==
    /\ Get(counts0, n) = 0
    /\ Cardinality(NewOfName(n)) = 2
    /\ \A pid \in NewOfName(n) : Qualifies(procs[pid])

\* C5 (scenario B): at the end of a tick on which two qualifying processes
\* of one application name appear together, the name uncounted before,
\* exactly one INSERT has been enqueued for the two, the name's instance
\* count is 2, and both pids are in the ledger under the name.
C5_ScenarioB ==
    TickOver =>
        \A n \in LowerNames :
            TwoNewOfName(n) =>
                /\ InsertsAmong(NewOfName(n)) = 1
                /\ Get(runningAppCounts, n) = 2
                /\ \A pid \in NewOfName(n) :
                      pid \in DOMAIN runningProcs /\ runningProcs[pid] = n

C5_Witness ==
    /\ TickOver
    /\ TwoNewOfName("editor.exe")
    /\ Len(tickWrites) = 1

(* ------------------------------- C6 ----------------------------------- *)

\* the ledger entry of the pid was recorded by the exclusion rule, or the
\* process is being classified and an exclusion rule matches it
ExcludedPid(pid) ==
    \/ pid \in (DOMAIN runningProcs) \ counted
    \/ pc = "new" /\ pid \in todo \cap DOMAIN procs /\ IsExcluded(procs[pid])

\* C6 (scenario C): no lifecycle write is ever enqueued for the pid of an
\* excluded process, neither an INSERT while it runs nor an UPDATE on the
\* tick where it disappears.
C6_NoWriteForExcluded ==
    [][\A pid \in Pids :
          ExcludedPid(pid) => \A req \in RequestsFor(pid) : ~Enqueues(req)]_vars

(* ------------------------------- C8 ----------------------------------- *)

\* tick N: a process whose lookup fails is not in the ledger at the end of
\* the tick and no write was enqueued for its pid
FailedLookupSkipped ==
    \A pid \in DOMAIN procs :
        LookupFails(procs[pid]) =>
            /\ pid \notin DOMAIN runningProcs
            /\ \A req \in RequestsFor(pid) : Writes(tickWrites, req.op, pid) = 0

\* tick N+1: a pid that was not in the ledger when the tick began and is
\* absent from the enumeration has no write and is not in the ledger
AbsentUnknown ==
    \A pid \in Pids \ ((DOMAIN procs0) \cup currentPids) :
        /\ pid \notin DOMAIN runningProcs
        /\ Writes(tickWrites, "INSERT", pid) = 0
        /\ Writes(tickWrites, "UPDATE", pid) = 0

\* between two ticks nothing enters the ledger
NoEntryBetweenTicks ==
    pc = "select" /\ pc' = "select" =>
        (DOMAIN runningProcs') \subseteq (DOMAIN runningProcs)

\* C8 (scenario E): a process whose name or executable path cannot be read
\* on a tick gets no write and no ledger entry on that tick; nothing enters
\* the ledger between ticks; and a pid that is outside the ledger and absent
\* from the next enumeration gets no write and no ledger entry on that tick
\* either.
C8_ScenarioE ==
    /\ [](TickOver => FailedLookupSkipped /\ AbsentUnknown)
    /\ [][NoEntryBetweenTicks]_vars

C8_Witness ==
    /\ TickOver
    /\ \E pid \in DOMAIN procs : LookupFails(procs[pid]) /\ ~procs[pid].nameErr
    /\ \E pid \in DOMAIN procs : procs[pid].nameErr
    /\ Len(tickWrites) = 0

(* ------------------------------- C9 ----------------------------------- *)

\* ledger pids of the tick's start that are missing from the enumeration
EndedPids == (DOMAIN procs0) \ currentPids

\* how many of them carried the name
EndedOfName(n) == Cardinality({pid \in EndedPids : procs0[pid] = n})

\* the count a name has once every ended entry is handled
CountAfterEnded(n) ==
    IF Get(counts0, n) - EndedOfName(n) > 0
    THEN Get(counts0, n) - EndedOfName(n)
    ELSE 0

\* no process of the tick has been classified yet
NothingClassified == todo = DOMAIN procs

\* C9: once the monitor has left the ended pass of a tick, every ledgered
\* pid that is absent from the enumeration is out of the ledger with its
\* UPDATE enqueued, every UPDATE of the tick precedes every INSERT, and
\* before the first process is classified the counts are those after all
\* the decrements.
C9_EndedBeforeNew ==
    pc \in {"newlock", "new"} =>
        /\ \A pid \in EndedPids :
              pid \notin DOMAIN runningProcs /\ Writes(tickWrites, "UPDATE", pid) = 1
        /\ \A i, j \in 1..Len(tickWrites) :
              tickWrites[i].op = "UPDATE" /\ tickWrites[j].op = "INSERT" => i < j
        /\ NothingClassified =>
              \A n \in LowerNames : Get(runningAppCounts, n) = CountAfterEnded(n)

\* P ended and Q of the same name logged in the same tick
C9_Witness ==
    /\ TickOver
    /\ \E P \in EndedPids : \E Q \in DOMAIN procs :
          /\ ToLower(procs[Q].name) = procs0[P]
          /\ tickWrites = <<UpdateReq(P), InsertReq(Q, procs[Q].name)>>

(* ------------------------------- C10 ---------------------------------- *)

\* C10: ResetLoggedApps never blocks: no caller is ever held in the send,
\* whatever the monitor loop is doing.
C10_ResetNeverBlocks == resetBlocked = 0

(* ------------------------------- C11 ---------------------------------- *)

\* the step is the monitor loop receiving a signal from resetLoggerCh
ResetReceived == resetLoggerCh' = resetLoggerCh - 1

\* the iteration of the select loop before this one handled a reset
AfterReset == lastIter \in {"reset", "reset2"}

\* C11: a reset handled directly after another reset, with no tick in
\* between, changes neither the ledger, nor the instance counts, nor the
\* write queue, nor the store: two resets in succession leave what one
\* leaves.
C11_ResetIdempotent ==
    [][(AfterReset /\ ResetReceived) =>
          UNCHANGED <<runningProcs, runningAppCounts, writeCh, store>>]_vars

\* a second reset has been handled right after a first one, with requests
\* buffered and rows open
C11_Witness ==
    /\ lastIter = "reset2"
    /\ writeCh # <<>>
    /\ store # EmptyBag
    /\ resetPids # {}

(* ------------------------------- C12 ---------------------------------- *)

\* the requests of a sequence
Range(seq) == {seq[i] : i \in 1..Len(seq)}

\* the step completes a send: one request more, at the tail of the buffer
SendCompletes ==
    /\ Len(writeCh') = Len(writeCh) + 1
    /\ SubSeq(writeCh', 1, Len(writeCh)) = writeCh
    /\ inflight' = inflight

\* the step hands the oldest buffered request to a store call
OldestReceived ==
    /\ writeCh # <<>>
    /\ writeCh' = Tail(writeCh)
    /\ inflight' = Append(inflight, Head(writeCh))

\* the step ends a store call; the store holds the effect of that request
\* or, on an error, what it held
CallReturns ==
    /\ writeCh' = writeCh
    /\ \E i \in DOMAIN inflight :
          /\ inflight' = RemoveAt(inflight, i)
          /\ store' \in {store, Exec(store, inflight[i])}

\* C12: the buffer changes only by a send that appends at its tail or by
\* the receive of its oldest request, which goes into a store call; at
\* most one store call is in progress at any time, and the store changes
\* only by the return of that call: the requests are executed one at a
\* time in the order in which their sends completed.
C12_FifoSingleConsumer ==
    /\ [](Len(inflight) <= 1)
    /\ [][(writeCh' # writeCh) => (SendCompletes \/ OldestReceived)]_vars
    /\ [][(inflight' # inflight \/ store' # store) =>
              (OldestReceived /\ store' = store) \/ CallReturns]_vars

\* a store call in progress with two different requests waiting behind it
C12_Witness ==
    /\ Len(inflight) = 1
    /\ Len(writeCh) = 2
    /\ writeCh[1] # writeCh[2]
    /\ inflight[1] # writeCh[1]
    /\ pc = "new"

(* ------------------------------- C13 ---------------------------------- *)

\* ledger pids the ended pass has still to handle
EndedLeft == (DOMAIN runningProcs) \ currentPids

\* the monitor stands at a call of EnqueueWrite: whatever it does next
\* sends a request
AtSend ==
    \/ pc = "seedrows" /\ rows # {} /\ \A r \in rows : r.pid \notin alive
    \/ pc = "ended" /\ EndedLeft # {}
    \/ /\ pc = "new"
       /\ todo # {}
       /\ \A pid \in todo :
             Classify(runningProcs, runningAppCounts, pid, procs[pid]) = Log

\* a step of the monitor that calls EnqueueWrite
MonitorSend == SeedRow \/ EndedStep \/ NewStep

\* the requests the monitor can send
AllRequests ==
    UNION {{UpdateReq(pid), InsertReq(pid, "Editor.exe")} : pid \in Pids}

\* the call returns without waiting while the buffer has room
SendProceeds == (AtSend /\ CanEnqueue) => ENABLED MonitorSend

\* with the buffer full the caller waits: the monitor does not move and no
\* request is sent
SendBlocks == (AtSend /\ ~CanEnqueue) => UNCHANGED <<monVars, tickWrites>>

\* a request that is sent is in the buffer, at its tail
SendKeeps ==
    Len(tickWrites') > Len(tickWrites) =>
        writeCh' = Append(writeCh, tickWrites'[Len(tickWrites')])

\* a request leaves the buffer only into a store call, and a request whose
\* store call has returned is not in the buffer again
HandedOnce ==
    /\ Len(writeCh') < Len(writeCh) => OldestReceived
    /\ Len(inflight') < Len(inflight) =>
          writeCh' = writeCh /\ Len(inflight') = Len(inflight) - 1

\* C13: the buffer never holds more than its capacity; a send proceeds
\* while the buffer has room and waits, without losing the request, while
\* it is full; every buffered request goes into exactly one store call,
\* and does get there when the writer keeps being scheduled and its store
\* calls return.
C13_BackpressureNoLoss ==
    /\ [](Len(writeCh) <= WriteChCap)
    /\ []SendProceeds
    /\ [][SendBlocks /\ SendKeeps /\ HandedOnce]_vars
    /\ \A req \in AllRequests :
          (req \in Range(writeCh)) ~> (req \in Range(inflight))

\* the monitor waits in a send: the buffer is full and the writer is in a
\* store call
C13_Witness ==
    /\ AtSend
    /\ ~CanEnqueue
    /\ Len(inflight) = 1
    /\ pc = "ended"

(* ------------------------------- C14 ---------------------------------- *)

\* the monitor is inside a tick
InTick == pc \in {"ended", "newlock", "new"}

\* C14: whatever the writer does, also when a db.Exec call never returns,
\* every tick the monitor starts is completed: the monitor is back at its
\* select.
C14_TicksComplete == InTick ~> (pc = "select")

(* ------------------------------- C15 ---------------------------------- *)

\* the step is the return of a db.Exec call with an error
FailedReturn == Len(inflight') < Len(inflight) /\ execErr'

\* the failed request is gone: the store is as it was, the request is in
\* no store call and is not in the buffer again, and the writer lives on
Dropped ==
    FailedReturn =>
        /\ store' = store
        /\ inflight' = <<>>
        /\ writeCh' = writeCh
        /\ writers' = writers

\* after a failure the writer takes the oldest buffered request next
NextAfterFailure ==
    (execErr /\ Len(inflight') > Len(inflight)) =>
        inflight = <<>> /\ OldestReceived

\* C15: a request whose execution fails is dropped, not retried: the store
\* is unchanged, the request is not put back, the writer does not end, and
\* it goes on with the oldest buffered request as soon as there is one.
C15_FailureDropped ==
    /\ [][Dropped /\ NextAfterFailure]_vars
    /\ [](pc \notin {"boot", "exit"} => writers = 1)
    /\ []((execErr /\ inflight = <<>> /\ writeCh # <<>>) => ENABLED WriterRecv)

\* an execution has failed and the writer is in the store call of the next
\* request, with another one waiting
C15_Witness ==
    /\ execErr
    /\ Len(inflight) = 1
    /\ writeCh # <<>>
    /\ inflight[1].op = "INSERT"

(* ------------------------------- C16 ---------------------------------- *)

\* C16: the return of a db.Exec call with an error changes neither the
\* ledger nor the instance counts; an entry whose INSERT failed stays.
C16_NoRollback ==
    [][(Len(inflight') < Len(inflight) /\ execErr') =>
          UNCHANGED <<runningProcs, runningAppCounts, mu>>]_vars

\* the tick logged a process, its INSERT has been through the writer and
\* failed: the process is in the ledger and counted, and no row of its pid
\* is open
C16_Witness ==
    /\ TickOver
    /\ execErr
    /\ writeCh = <<>>
    /\ inflight = <<>>
    /\ \E pid \in DOMAIN procs :
          /\ tickWrites = <<InsertReq(pid, procs[pid].name)>>
          /\ pid \in DOMAIN runningProcs
          /\ Get(runningAppCounts, runningProcs[pid]) = 1
          /\ OpenCount(store, pid) = 0

(* ------------------------------- C17 ---------------------------------- *)

\* a session of a pid is the life of its ledger entry: the INSERT is sent
\* by the step that makes the entry, the UPDATE by the step of the ended
\* pass that removes it
SessionOrder ==
    \A pid \in Pids :
        /\ (\E k \in ProcKinds : Enqueues(InsertReq(pid, k.name))) =>
              pid \notin DOMAIN runningProcs /\ pid \in DOMAIN runningProcs'
        /\ (pc = "ended" /\ Enqueues(UpdateReq(pid))) =>
              pid \in DOMAIN runningProcs /\ pid \notin DOMAIN runningProcs'

\* the request at position i of the buffer goes into a store call
Received(i) ==
    /\ writeCh' = RemoveAt(writeCh, i)
    /\ inflight' = Append(inflight, writeCh[i])

\* an INSERT of the pid sent before the request at position i is still in
\* the buffer or inside its store call
InsertAhead(i) ==
    \/ \E j \in 1..(i - 1) :
          writeCh[j].op = "INSERT" /\ writeCh[j].pid = writeCh[i].pid
    \/ \E k \in DOMAIN inflight :
          inflight[k].op = "INSERT" /\ inflight[k].pid = writeCh[i].pid

\* the store call of an UPDATE begins only after the store calls of the
\* INSERTs of its pid that were sent before it have returned
ExecutionOrder ==
    \A i \in 1..Len(writeCh) :
        (Received(i) /\ writeCh[i].op = "UPDATE") => ~InsertAhead(i)

\* C17: for every session of a pid the INSERT is sent when the session
\* begins and the UPDATE when it ends, and the writer executes an UPDATE
\* only when every INSERT of the pid sent before it has been executed.
C17_StartBeforeEnd == [][SessionOrder /\ ExecutionOrder]_vars

\* the INSERT of a session is inside its store call and the UPDATE of the
\* session waits behind it
C17_Witness ==
    \E pid \in Pids :
        /\ inflight = <<InsertReq(pid, "Editor.exe")>>
        /\ writeCh = <<UpdateReq(pid)>>
        /\ pid \notin DOMAIN runningProcs

(* ------------------------------- C18 ---------------------------------- *)

\* the step sends a request
Sends == Len(tickWrites') > Len(tickWrites)

\* a step that puts the pid into the ledger and sends something sends one
\* INSERT, for this pid
SessionBegins(pid) ==
    (pid \notin DOMAIN runningProcs /\ pid \in DOMAIN runningProcs' /\ Sends) =>
        \E k \in ProcKinds : Enqueues(InsertReq(pid, k.name))

\* while the entry stays, no request is sent for the pid
SessionGoesOn(pid) ==
    (pid \in DOMAIN runningProcs /\ pid \in DOMAIN runningProcs') =>
        \A req \in RequestsFor(pid) : ~Enqueues(req)

\* the entry goes by a reset, or by the ended pass of a tick whose
\* enumeration lacks the pid, which sends one UPDATE for it
SessionEnds(pid) ==
    (pid \in DOMAIN runningProcs /\ pid \notin DOMAIN runningProcs') =>
        \/ ResetReceived
        \/ pc = "ended" /\ pid \notin currentPids /\ Enqueues(UpdateReq(pid))

\* C18: over the life of a ledger entry, without a reset, the requests
\* sent for its pid are the INSERT of the step that logged it and the
\* UPDATE of the step that removes it, on the first tick whose enumeration
\* lacks the pid; the ticks in between send nothing for it.
C18_OncePerSession ==
    /\ [][\A pid \in Pids :
              SessionBegins(pid) /\ SessionGoesOn(pid) /\ SessionEnds(pid)]_vars
    /\ [](pc \in {"newlock", "new"} => (DOMAIN runningProcs) \subseteq currentPids)

\* a whole session in the buffer: the INSERT of the tick that logged the
\* process and the UPDATE of the later tick that misses it
C18_Witness ==
    /\ TickOver
    /\ \E pid \in EndedPids :
          /\ writeCh = <<InsertReq(pid, "Editor.exe"), UpdateReq(pid)>>
          /\ tickWrites = <<UpdateReq(pid)>>
          /\ OpenCount(store, pid) = 0
          /\ resetLoggerCh = 0

(* ------------------------------- C19 ---------------------------------- *)

\* no pid the ledger held when the tick began is in the enumeration: every
\* instance of every name has disappeared
AllGone == (DOMAIN procs0) \cap currentPids = {}

\* C19: on a tick that finds every earlier instance gone, so that every
\* application name is untracked once the ended pass is through, each name
\* carried by a new qualifying process gets an INSERT for a process of that
\* name, with no reset needed.
C19_FreshInsertWhenUntracked ==
    (TickOver /\ AllGone) =>
        \A n \in LowerNames :
            (\E pid \in NewOfName(n) : Qualifies(procs[pid])) =>
                \E pid \in NewOfName(n) :
                    InsertReq(pid, procs[pid].name) \in Range(tickWrites)

(* ------------------------------- C20 ---------------------------------- *)

\* the last iteration of the loop was a tick whose enumeration failed
AfterEnumFail == lastIter = "enumfail"

\* the step is a tick whose enumeration fails
EnumFails == ~AfterEnumFail /\ AfterEnumFail'

\* the step is the first tick after the failed one
Retry == AfterEnumFail /\ lastIter' = "tick"

\* C20: a tick whose enumeration fails leaves the loop at the select with
\* the ledger and the counts as they were and sends no write; the ledger
\* stays as it was until the loop's next iteration; and the tick that
\* follows takes that ledger as its starting point and examines every
\* enumerated process.
C20_FailedTickChangesNothing ==
    /\ [][EnumFails =>
            /\ pc = "select" /\ pc' = "select"
            /\ UNCHANGED <<runningProcs, runningAppCounts, mu>>
            /\ UNCHANGED <<writeCh, store, tickWrites>>]_vars
    /\ [][AfterEnumFail' =>
            pc' = "select" /\ UNCHANGED <<runningProcs, runningAppCounts>>]_vars
    /\ [][Retry =>
            /\ pc' = "ended"
            /\ UNCHANGED <<runningProcs, runningAppCounts>>
            /\ procs0' = runningProcs /\ counts0' = runningAppCounts
            /\ todo' = currentPids'
            /\ tickWrites' = <<>>]_vars

\* a tick failed with a process in the ledger (gone from the system since:
\* its row is open and nothing has closed it) and a request still waiting
C20_Witness ==
    /\ AfterEnumFail
    /\ pc = "select"
    /\ \E pid \in DOMAIN runningProcs :
          /\ Get(runningAppCounts, runningProcs[pid]) = 1
          /\ OpenCount(store, pid) = 1
    /\ writeCh # <<>>

(* ------------------------------- C21 ---------------------------------- *)

\* C21: the step in which the monitor loop receives a reset signal finds
\* the state lock free and leaves it free, makes the ledger and the
\* instance counts empty together, and changes neither the buffered write
\* requests nor the rows of the store.
C21_ResetFrame ==
    [][ResetReceived =>
          /\ pc = "select" /\ pc' = "select"
          /\ mu = FALSE /\ mu' = FALSE
          /\ runningProcs' = EmptyMap
          /\ runningAppCounts' = EmptyMap
          /\ UNCHANGED <<writeCh, store>>]_vars

\* a first reset has just emptied a ledger with counted entries, with
\* requests buffered and rows open
C21_Witness ==
    /\ lastIter = "reset"
    /\ pc = "select"
    /\ resetPids # {}
    /\ runningProcs = EmptyMap /\ runningAppCounts = EmptyMap
    /\ writeCh # <<>>
    /\ store # EmptyBag

(* ------------------------------- C22 ---------------------------------- *)

\* pids that were counted in the ledger when the reset was handled and had
\* an open row then: the rows the reset left open for running processes
OpenBeforeReset == openAtReset \cap resetPids

\* on the tick after the reset the process is still enumerated: nothing is
\* enqueued that would close its row
StaysOpen ==
    \A pid \in OpenBeforeReset \cap currentPids :
        Writes(tickWrites, "UPDATE", pid) = 0

\* on the tick after the reset the process is gone: its end UPDATE is
\* enqueued
ClosedWhenGone ==
    \A pid \in OpenBeforeReset \ currentPids :
        Writes(tickWrites, "UPDATE", pid) = 1

\* C22: at the end of the first tick after a reset, a row that was open at
\* the reset has no UPDATE enqueued if its process is still enumerated, and
\* has its end UPDATE enqueued if its process has disappeared.
C22_OpenRowsAfterReset == TickOver => StaysOpen /\ ClosedWhenGone

(* ------------------------------- C23 ---------------------------------- *)

\* the monitor is in initializeRunningProcs
Seeding == pc \in {"seed", "seedrows"}

\* the step handles a row of the seeding query whose pid is alive: the pid
\* goes into the ledger under the lowercase name and nothing is enqueued
SeedsAlive(r) ==
    /\ r.pid \in DOMAIN runningProcs'
    /\ runningProcs'[r.pid] = ToLower(r.name)
    /\ writeCh' = writeCh

\* the step handles a row whose pid is not alive: the end UPDATE of the pid
\* is enqueued and the ledger is left alone
SeedsStale(r) ==
    /\ Enqueues(UpdateReq(r.pid))
    /\ runningProcs' = runningProcs

\* the row is in the ledger, or its UPDATE was enqueued, and not both
RowSeeded(r) ==
    (r.pid \in DOMAIN runningProcs /\ runningProcs[r.pid] = ToLower(r.name))
        # (Writes(tickWrites, "UPDATE", r.pid) > 0)

\* the tick is the first iteration of the loop
FirstTick == lastIter = "start" /\ lastIter' = "tick"

\* C23: seeding is over before the first tick begins; each row it handles
\* either enters the ledger under its lowercase name (pid alive) or has its
\* end UPDATE enqueued (pid not alive); when seeding ends, every row still
\* open is in the ledger or has its UPDATE enqueued, never both and never
\* neither; the first tick starts from the seeded ledger, and a pid in it
\* gets no INSERT on that tick.
C23_SeedingHandlesEveryRow ==
    /\ [][\A r \in rows \ rows' :
            IF r.pid \in alive THEN SeedsAlive(r) ELSE SeedsStale(r)]_vars
    /\ [][Seeding /\ ~Seeding' =>
            /\ pc' = "select"
            /\ \A r \in OpenRows(store) : RowSeeded(r)]_vars
    /\ [][FirstTick =>
            /\ pc = "select"
            /\ \A pid \in DOMAIN runningProcs :
                  \E r \in OpenRows(store) :
                      r.pid = pid /\ ToLower(r.name) = runningProcs[pid]]_vars
    /\ [](TickOver => \A pid \in DOMAIN procs0 : Writes(tickWrites, "INSERT", pid) = 0)

(* ------------------------------- C24 ---------------------------------- *)

\* the monitor is inside a tick: in the ended pass, between the passes, or
\* in the new pass
InsideTick == pc \in {"ended", "newlock", "new"}

\* the step changes the ledger or the counts
LedgerChanges == <<runningProcs, runningAppCounts>>' # <<runningProcs, runningAppCounts>>

\* the change is the ended pass removing an entry whose pid is gone
EndedPassChange ==
    /\ pc = "ended"
    /\ \E pid \in (DOMAIN runningProcs) \ currentPids :
          runningProcs' = Delete(runningProcs, pid)

\* the change is the new pass recording a process it visits
NewPassChange ==
    /\ pc = "new"
    /\ \E pid \in todo \cap DOMAIN procs :
          runningProcs' = Put(runningProcs, pid, ToLower(procs[pid].name))

\* C24: a reset signal is received only with the loop at its select, never
\* inside a tick; inside a tick the ledger and the counts change only by a
\* step of the ended pass or of the new pass of that tick; and between the
\* two passes nothing changes them, so the new pass starts on the ledger
\* the ended pass left.
C24_TickIsAtomic ==
    /\ [][ResetReceived => pc = "select" /\ pc' = "select"]_vars
    /\ [][InsideTick /\ LedgerChanges => EndedPassChange \/ NewPassChange]_vars
    /\ [][pc = "newlock" => ~LedgerChanges]_vars

\* both passes of a tick have acted while a reset signal was waiting
C24_Witness ==
    /\ TickOver
    /\ resetLoggerCh > 0
    /\ \E P \in EndedPids : \E Q \in DOMAIN procs :
          tickWrites = <<UpdateReq(P), InsertReq(Q, procs[Q].name)>>
    /\ lastIter = "tick"

(* ------------------------------- C25 ---------------------------------- *)

\* pids whose ledger entry the step adds together with an increment of the
\* count of their name
NewlyCounted == counted' \ counted

\* C25: a pid that a tick adds to the instance count of its name belongs to
\* a process that, on that tick, is matched by no exclusion rule and is
\* trackable.
C25_OnlyClassifiedCounted ==
    [][pc = "new" =>
          \A pid \in NewlyCounted :
              /\ ~ShouldExclude(procs[pid].exe, procs[pid])
              /\ ShouldTrack(procs[pid].exe, procs[pid])]_vars

(* ------------------------------- C26 ---------------------------------- *)

\* the five exclusion rules, numbered: own executable, console host,
\* system directories, product name of the operating system, integrity
\* level of a system service
Rules == 1..5

RuleMatches(i, p) ==
    LET path == PathToLower(p.exe) IN
    CASE i = 1 -> ContainsName(path, "procguard.exe")
      [] i = 2 -> HasSuffixName(path, "conhost.exe")
      [] i = 3 -> ContainsDirs(path, "windows", "system32")
                    \/ ContainsDirs(path, "windows", "syswow64")
      [] i = 4 -> p.product = "Microsoft Windows Operating System"
      [] OTHER -> p.il >= IntegritySystem

\* the orders in which the rules can be gone through
RuleOrders ==
    {o \in [Rules -> Rules] : \A i, j \in Rules : o[i] = o[j] => i = j}

\* the rules gone through in the given order, stopping at the first match
RECURSIVE ExcludedFrom(_, _, _)
ExcludedFrom(order, i, p) ==
    IF i > Len(order) THEN FALSE
    ELSE IF RuleMatches(order[i], p) THEN TRUE
    ELSE ExcludedFrom(order, i + 1, p)

IsInterpreter(p) == ToLower(p.name) \in {"cmd.exe", "powershell.exe", "pwsh.exe"}

\* the condition of the claim, with the rules taken in the given order
Accepted(order, p) ==
    /\ ~p.nameErr /\ p.name # "" /\ ~p.exeErr
    /\ ~ExcludedFrom(order, 1, p)
    /\ \/ IsInterpreter(p) /\ ToLower(p.parent) = "explorer.exe"
       \/ ~IsInterpreter(p) /\ p.window

\* the decision for every kind of process, the rules in their written order
Decision == [p \in FilterKinds |-> Accepted([i \in Rules |-> i], p)]

\* every order of the rules gives that decision
OrderIrrelevant ==
    \A p \in FilterKinds : \A order \in RuleOrders : Accepted(order, p) = Decision[p]

\* the name of the process is readable and has no count
NameUncounted(p) ==
    p.nameErr \/ p.name = "" \/ Get(runningAppCounts, ToLower(p.name)) = 0

\* C26: when the new pass visits a process whose pid is not in the ledger
\* and whose name has no count, it enqueues an INSERT for it exactly if the
\* name and the path are readable, no exclusion rule matches, and the
\* process is an interpreter started by explorer.exe or another process
\* with a visible window; and whatever the order of the exclusion rules,
\* the outcome is that one.
C26_InsertDecision ==
    /\ [][pc = "new" =>
            \A pid \in (todo \ todo') \ DOMAIN runningProcs :
                NameUncounted(procs[pid]) =>
                    (Enqueues(InsertReq(pid, procs[pid].name)) <=> Decision[procs[pid]])]_vars
    /\ []OrderIrrelevant

\* a tick has refused a windowed system service by its integrity level and
\* has logged an interpreter without a window started from the desktop
C26_Witness ==
    /\ TickOver
    /\ \E pid, q \in DOMAIN procs :
          /\ procs[pid] = SystemService
          /\ procs[q] = PwshShell
          /\ tickWrites = <<InsertReq(q, "pwsh.exe")>>
          /\ pid \in DOMAIN runningProcs

(* ------------------------------- C27 ---------------------------------- *)

\* the process is passed over for this tick: a lookup fails, or it is not
\* excluded, its name has no count and it is not trackable
PassedOver(p) ==
    \/ LookupFails(p)
    \/ /\ ~ShouldExclude(p.exe, p)
       /\ Get(runningAppCounts, ToLower(p.name)) = 0
       /\ ~ShouldTrack(p.exe, p)

\* the pids the step of the new pass visits
Visited == todo \ todo'

\* a tick begins
TickStarts == pc = "select" /\ pc' = "ended"

\* the step takes the pid out of the ledger
Leaves(pid) == pid \in DOMAIN runningProcs /\ pid \notin DOMAIN runningProcs'

\* C27: a process the new pass passes over leaves no trace, neither a
\* ledger entry nor a write; every tick looks up afresh, and visits, every
\* enumerated pid that is not in the ledger, so such a process is classified
\* again on each tick that enumerates it.  An excluded process is recorded
\* under its lowercase name without a write; while its entry stays no
\* lookup is made for it and visiting it changes nothing; and an entry
\* leaves the ledger only by a reset or on a tick that does not enumerate
\* the pid.
C27_SkipRetriedExcludedKept ==
    /\ [][pc = "new" =>
            \A pid \in Visited \ DOMAIN runningProcs :
                /\ PassedOver(procs[pid]) =>
                      /\ pid \notin DOMAIN runningProcs'
                      /\ UNCHANGED <<runningAppCounts, writeCh, tickWrites>>
                /\ IsExcluded(procs[pid]) =>
                      /\ pid \in DOMAIN runningProcs'
                      /\ runningProcs'[pid] = ToLower(procs[pid].name)
                      /\ UNCHANGED <<runningAppCounts, writeCh, tickWrites>>]_vars
    /\ [][TickStarts =>
            /\ todo' = currentPids'
            /\ DOMAIN procs' = currentPids' \ DOMAIN runningProcs]_vars
    /\ [][pc = "new" =>
            \A pid \in Visited \cap DOMAIN runningProcs :
                UNCHANGED <<runningProcs, runningAppCounts, writeCh, tickWrites>>]_vars
    /\ [][\A pid \in Pids :
            Leaves(pid) => ResetReceived \/ (pc = "ended" /\ pid \notin currentPids)]_vars
    /\ [](pc = "select" => todo = {})

\* a tick has passed over a process whose lookup failed, and has left alone
\* the entry of an excluded process that an earlier tick recorded
C27_Witness ==
    /\ TickOver
    /\ \E pid \in (DOMAIN procs0) \ counted : \E q \in DOMAIN procs :
          /\ pid \in currentPids
          /\ pid \in DOMAIN runningProcs
          /\ LookupFails(procs[q])
          /\ q \notin DOMAIN runningProcs
    /\ tickWrites = <<>>
    /\ store = EmptyBag

(* ------------------------------- C28 ---------------------------------- *)

\* the step is the ended pass handling the ledger entry of pid: its UPDATE
\* is enqueued, the entry is removed and every other entry is kept, the
\* count of its name goes down by one with the mapping removed at zero,
\* and every other name keeps its mapping
EndsEntry(pid) ==
    LET n == runningProcs[pid] IN
    /\ pid \notin currentPids
    /\ Enqueues(UpdateReq(pid))
    /\ DOMAIN runningProcs' = (DOMAIN runningProcs) \ {pid}
    /\ \A q \in DOMAIN runningProcs' : runningProcs'[q] = runningProcs[q]
    /\ IF Get(runningAppCounts, n) - 1 > 0
       THEN n \in DOMAIN runningAppCounts'
               /\ runningAppCounts'[n] = runningAppCounts[n] - 1
       ELSE n \notin DOMAIN runningAppCounts'
    /\ \A m \in (DOMAIN runningAppCounts \cup DOMAIN runningAppCounts') \ {n} :
          /\ m \in DOMAIN runningAppCounts /\ m \in DOMAIN runningAppCounts'
          /\ runningAppCounts'[m] = runningAppCounts[m]

\* the step leaves the ledger, the counts and the requests of the tick as
\* they are
EndedPassIdle == UNCHANGED <<runningProcs, runningAppCounts, tickWrites>>

\* names of the entries that ended on this tick
EndedNames == {procs0[pid] : pid \in EndedPids}

\* C28: every step taken during the ended pass either leaves the ledger,
\* the counts and the tick's requests alone or handles one entry whose pid
\* is absent from the enumeration; when the pass is left, every such entry
\* is gone with exactly one UPDATE enqueued for its pid, the entries whose
\* pid is present are as they were when the tick began, no other request
\* was enqueued, and the names with no ended entry have the counts they
\* had.
C28_EndedPassFrame ==
    /\ [][pc = "ended" =>
            \/ EndedPassIdle
            \/ \E pid \in DOMAIN runningProcs : EndsEntry(pid)]_vars
    /\ [](pc = "newlock" =>
            /\ DOMAIN runningProcs = (DOMAIN procs0) \cap currentPids
            /\ \A pid \in DOMAIN runningProcs : runningProcs[pid] = procs0[pid]
            /\ \A pid \in EndedPids : Writes(tickWrites, "UPDATE", pid) = 1
            /\ Len(tickWrites) = Cardinality(EndedPids)
            /\ \A n \in LowerNames \ EndedNames :
                  Get(runningAppCounts, n) = Get(counts0, n)
                     /\ (n \in DOMAIN runningAppCounts <=> n \in DOMAIN counts0))

\* the ended pass has closed one of two counted instances of a name: the
\* other entry is in place and the count went from 2 to 1
C28_Witness ==
    /\ pc = "newlock"
    /\ \E P \in EndedPids : \E Q \in DOMAIN runningProcs :
          /\ procs0[P] = "editor.exe" /\ runningProcs[Q] = "editor.exe"
          /\ Q \in counted
          /\ tickWrites = <<UpdateReq(P)>>
    /\ Get(counts0, "editor.exe") = 2
    /\ Get(runningAppCounts, "editor.exe") = 1

(* ------------------------------- C29 ---------------------------------- *)

\* the pid is in the ledger under the lowercase name of the process after
\* the step
Recorded(pid) ==
    pid \in DOMAIN runningProcs' /\ runningProcs'[pid] = ToLower(procs[pid].name)

\* a readable process that no exclusion rule matches and whose name has a
\* count: it is recorded, the count goes up by one, nothing is enqueued
FurtherInstance(pid) ==
    LET p == procs[pid]
        n == ToLower(p.name)
    IN  (/\ ~LookupFails(p)
         /\ ~ShouldExclude(p.exe, p)
         /\ Get(runningAppCounts, n) > 0)
        => /\ Recorded(pid)
           /\ Get(runningAppCounts', n) = Get(runningAppCounts, n) + 1
           /\ UNCHANGED <<writeCh, tickWrites>>

\* a qualifying process whose name has no count: it is recorded, exactly
\* its INSERT is enqueued, the count is 1
FirstInstance(pid) ==
    LET p == procs[pid]
        n == ToLower(p.name)
    IN  (Qualifies(p) /\ Get(runningAppCounts, n) = 0)
        => /\ Recorded(pid)
           /\ Enqueues(InsertReq(pid, p.name))
           /\ writeCh' = Append(writeCh, InsertReq(pid, p.name))
           /\ Get(runningAppCounts', n) = 1

\* C29: when the new pass visits a pid that is not in the ledger, a
\* readable, non-excluded process of a name with a count above zero is
\* recorded with the count one higher and no write, and a qualifying
\* process of a name without a count is recorded with one INSERT enqueued
\* and the count at 1.
C29_DedupOrInsert ==
    [][pc = "new" =>
          \A pid \in Visited \ DOMAIN runningProcs :
              FurtherInstance(pid) /\ FirstInstance(pid)]_vars

\* a tick has found a further instance of a name whose first instance was
\* logged by an earlier tick and is still running
C29_Witness ==
    /\ TickOver
    /\ \E P \in (DOMAIN procs0) \cap currentPids : \E Q \in DOMAIN procs :
          /\ P \in counted /\ procs0[P] = "editor.exe"
          /\ OpenCount(store, P) = 1
          /\ procs[Q] = EditorHidden
          /\ Q \in counted
    /\ Get(counts0, "editor.exe") = 1
    /\ Get(runningAppCounts, "editor.exe") = 2
    /\ tickWrites = <<>>

(* ------------------------------- C30 ---------------------------------- *)

\* C30: a reset signal never waits through the start of two ticks: it is
\* handled before the second tick that follows the call begins.
C30_ResetWithinTwoTicks == waited < 2

(* ------------------------------- C31 ---------------------------------- *)

\* C31: a name with an instance count above zero has, among the pids in the
\* ledger under it, one whose INSERT was enqueued (or whose open row was
\* found at seeding) with no end UPDATE enqueued for it since.
C31_CountedNameHasSession ==
    \A n \in LowerNames :
        Get(runningAppCounts, n) > 0 =>
            \E pid \in logged : pid \in DOMAIN runningProcs /\ runningProcs[pid] = n

(* ------------------------------- C32 ---------------------------------- *)

\* C32: whenever the state lock is free, every name in the instance-count
\* mapping is mapped to a count above zero.
C32_CountsPositive ==
    mu = FALSE => \A n \in DOMAIN runningAppCounts : runningAppCounts[n] > 0

\* the ended pass has just removed the entry of an excluded process, whose
\* name had no count: the name is still without a mapping
C32_Witness ==
    /\ pc = "newlock"
    /\ mu = FALSE
    /\ \E P \in EndedPids :
          /\ Get(counts0, procs0[P]) = 0
          /\ procs0[P] \notin DOMAIN runningAppCounts
          /\ tickWrites = <<UpdateReq(P)>>

(* ------------------------------- C33 ---------------------------------- *)

\* C33: once an InitDB / OpenDB call has returned, however many calls were
\* made, exactly one write channel has been made and exactly one consumer
\* goroutine runs, and at most one queued write is inside a store call.
C33_OneChannelOneConsumer ==
    ret # <<>> => (chans = 1 /\ writers = 1 /\ Len(inflight) <= 1)

(* ------------------------------- C34 ---------------------------------- *)

\* C34: when the first call failed to open the store or to create the
\* schema, every InitDB / OpenDB call returns a non-nil error, and none
\* returns a nil database together with a nil error.
C34_FailureReportedEveryCall ==
    (initFailed /\ ret # <<>>) => (ret[2] /\ ret # <<FALSE, FALSE>>)

(* ------------------------------- C35 ---------------------------------- *)

\* C35: in every state in which EnqueueWrite can be called, that is once an
\* InitDB call has returned with or without an error, the write channel
\* exists and a consumer runs on it, so that every call that has not
\* returned can still complete its send.
C35_ChannelForEveryEnqueue ==
    /\ ret # <<>> => (chans > 0 /\ writers > 0)
    /\ clientSends # <<>> => chans > 0

\* C35, the progress it states: every EnqueueWrite call returns
C35_EnqueueReturns == (clientSends # <<>>) ~> (clientSends = <<>>)

(* ------------------------------- C36 ---------------------------------- *)

\* the monitor is inside startup seeding or inside a tick
Busy == pc \in {"seedrows", "ended", "newlock", "new"}

\* open rows of ended processes that seeding has met or has yet to meet
StaleRows == Len(tickWrites) + Cardinality({r \in rows : r.pid \notin alive})

\* C36: with a writer that keeps being scheduled and store calls that
\* return, whatever the callers of ResetLoggedApps do, the monitor is never
\* blocked forever: seeding and every tick come back to the select, also
\* when seeding has more stale rows than the write channel buffers, and the
\* state lock, once held, is released.
C36_MonitorNeverBlocked ==
    /\ Busy ~> (pc = "select")
    /\ (mu = TRUE) ~> (mu = FALSE)
    /\ [](pc = "select" => mu = FALSE)

\* seeding holds the lock and is blocked in a send: the buffer is full and
\* the stale rows are more than it holds
C36_Witness ==
    /\ pc = "seedrows"
    /\ mu = TRUE
    /\ ~CanEnqueue
    /\ StaleRows > WriteChCap
    /\ \A r \in rows : r.pid \notin alive
    /\ rows # {}
    /\ resetLoggerCh > 0

(* ------------------------------- C37 ---------------------------------- *)

\* the step reads or writes the ledger or the instance counts: it changes
\* one of them, or it is an iteration of seeding or of one of the passes
MapAccess ==
    \/ runningProcs' # runningProcs
    \/ runningAppCounts' # runningAppCounts
    \/ /\ pc \in {"seedrows", "ended", "new"}
       /\ (pc' # pc \/ rows' # rows \/ todo' # todo)

\* the step is taken by the monitor goroutine with the state lock held: the
\* lock is held before and after it, or it is the reset case, which takes
\* and releases the lock around the replacement of both maps
UnderLock ==
    \/ mu /\ mu'
    \/ mu /\ pc' \in {"select", "newlock"}
    \/ pc = "select" /\ pc' = "select" /\ resetLoggerCh' < resetLoggerCh

\* the step is not one of the writer or of a caller of ResetLoggedApps
ByMonitor == store' = store /\ inflight' = inflight /\ resetBlocked' = resetBlocked

\* C37: every step that reads or writes the ledger or the instance-count
\* mapping is a step of the monitor goroutine taken with the state lock
\* held, in tick handling, reset handling and startup seeding alike.
C37_MapsUnderLock == [][MapAccess => (UnderLock /\ ByMonitor)]_vars

(* ------------------------------- C38 ---------------------------------- *)

\* a process that is not the monitor itself, with a readable name and a
\* readable executable path
NonSelfReadable(p) == ~LookupFails(p) /\ ~ContainsProcguard(PathToLower(p.exe))

\* lowercase names of the non-self readable processes the tick looked up
TickNames == {ToLower(procs[pid].name) : pid \in {q \in DOMAIN procs : NonSelfReadable(procs[q])}}

\* INSERT requests of the tick that carry the lowercase name
InsertsOf(nameLower) ==
    Cardinality({i \in 1..Len(tickWrites) :
        tickWrites[i].op = "INSERT" /\ ToLower(tickWrites[i].name) = nameLower})

\* C38: with the filter of the Linux build, when a successful tick is over,
\* every running process that is not the monitor itself and whose name and
\* executable path can be read is in the ledger under its lowercase name;
\* and when no name was counted as the tick began, the tick has enqueued
\* exactly one INSERT for every distinct lowercase name of these processes.
C38_PermissiveFilter ==
    TickOver =>
        /\ \A pid \in currentPids :
              (pid \in DOMAIN procs /\ NonSelfReadable(procs[pid])) =>
                  /\ pid \in DOMAIN runningProcs
                  /\ runningProcs[pid] = ToLower(procs[pid].name)
        /\ \A pid \in currentPids \ DOMAIN procs : pid \in DOMAIN runningProcs
        /\ DOMAIN counts0 = {} => \A n \in TickNames : InsertsOf(n) = 1

\* a tick that began with nothing counted is over; it met a windowless
\* process and a windowed one of the same lowercase name, both are in the
\* ledger, and one INSERT was enqueued
C38_Witness ==
    /\ TickOver
    /\ DOMAIN counts0 = {}
    /\ \E P, Q \in currentPids :
          /\ P \in DOMAIN procs /\ Q \in DOMAIN procs
          /\ procs[P] = EditorDaemon
          /\ procs[Q] = EditorLinux
          /\ runningProcs[P] = "editor" /\ runningProcs[Q] = "editor"
    /\ TickNames = {"editor"}
    /\ Len(tickWrites) = 1

(* ------------------------------- C7 ----------------------------------- *)

\* the processes a reset dropped from the ledger that the tick after it
\* finds running and qualifying
ResetQualifying ==
    {pid \in resetPids \cap (DOMAIN procs) : Qualifies(procs[pid])}

\* the INSERTs of the tick that carry the application name
InsertsOfName(n) ==
    Cardinality({i \in 1..Len(tickWrites) :
                    tickWrites[i].op = "INSERT" /\ ToLower(tickWrites[i].name) = n})

\* C7 as stated (scenario D): when a reset dropped three counted processes
\* and all three are running and qualifying on the next tick, that tick
\* enqueues one INSERT for each of the three pids.
C7_ThreeInserts ==
    (TickOver /\ Cardinality(resetPids) = 3 /\ ResetQualifying = resetPids) =>
        \A pid \in resetPids : Writes(tickWrites, "INSERT", pid) = 1

\* C7 as amended: on the tick after a reset, for every application name
\* carried by a running, qualifying process that the reset dropped, exactly
\* one INSERT of that name is enqueued, and every such process is in the
\* ledger again; with three such processes there are three INSERTs exactly
\* when their names differ pairwise.
C7_OneInsertPerName ==
    TickOver =>
        /\ \A pid \in ResetQualifying :
              /\ InsertsOfName(ToLower(procs[pid].name)) = 1
              /\ pid \in DOMAIN runningProcs
              /\ Writes(tickWrites, "INSERT", pid) <= 1
        /\ Cardinality(ResetQualifying) = 3 =>
              ((\A pid \in ResetQualifying : Writes(tickWrites, "INSERT", pid) = 1)
                  <=> (\A a, b \in ResetQualifying :
                          a # b => ToLower(procs[a].name) # ToLower(procs[b].name)))

\* three processes dropped by a reset, two of them of one name: two INSERTs
C7_Witness ==
    /\ TickOver
    /\ Cardinality(resetPids) = 3
    /\ ResetQualifying = resetPids
    /\ Len(tickWrites) = 2
    /\ \A i \in 1..2 : tickWrites[i].op = "INSERT"

====
